---- MODULE Spec2Model ----
(***************************************************************************)
(* A model of the signal generation and filtering engine of the stock      *)
(* trading system: SupportResistanceStrategy.analyze                       *)
(* (app/analysis/strategies.py), the position analysis of                  *)
(* SupportResistanceAnalyzer (app/analysis/support_resistance.py), the     *)
(* shape of TechnicalIndicators.get_technical_summary                      *)
(* (app/analysis/indicators.py) and SignalFilter.filter_signals            *)
(* (app/analysis/signal_filter.py).                                        *)
(*                                                                         *)
(* Numbers are fixed point:                                                *)
(*   confidence, position size  1.0  = ConfScale units                     *)
(*   prices, stops, targets     1.00 = MoneyScale units                    *)
(*   distance percentages       1%   = 100 (two decimals, as the code      *)
(*                                     rounds them)                        *)
(*   time                       1 s  = 2 units (so that the sub-second     *)
(*                                     part strftime drops is visible)     *)
(* Strings of the source that are not ASCII are written in English:        *)
(*   strength ratings  "weak" / "medium" / "strong"                        *)
(*   position labels   "near_resistance" / "near_support" /                *)
(*                     "lean_resistance" / "lean_support" / "neutral"      *)
(*   MACD crosses      "golden" / "death" / "none", signal "buy_signal" /  *)
(*                     "sell_signal" / "no_signal", zones "bull_zone" /    *)
(*                     "bear_zone" / "transition", trends "rising" /       *)
(*                     "falling" / "unknown"                               *)
(***************************************************************************)
EXTENDS Integers, Sequences, FiniteSets, TLC

\* ------------------------------------------------------------------------
\* Units and generic helpers
\* ------------------------------------------------------------------------

\* 1/1000 for the three decimals of to_dict, times 3 for the thirds of the
\* moving-average ratio, times 20 for the halves and tenths of the position
\* size multipliers
ConfScale == 1000 * 3 * 20

\* cents, times 200 for the 0.98 / 1.02 stop factors and the 2.5 reward factor
MoneyScale == 100 * 200

Cent == MoneyScale \div 100

Conf(thousandths) == thousandths * (ConfScale \div 1000)

Dollars(cents) == cents * Cent

\* Python's None; every optional value of the model is a record, so that it
\* can be compared with None.
None == [isNone |-> TRUE]

Min2(a, b) == IF a <= b THEN a ELSE b

Max2(a, b) == IF a >= b THEN a ELSE b

Abs(a) == IF a < 0 THEN -a ELSE a

\* max(0.0, min(1.0, x)) on confidences
Clamp01(x) == Max2(0, Min2(ConfScale, x))

\* round(n / d) to the nearest integer, ties to even (Python's round), for
\* n >= 0 and d > 0
RoundDiv(n, d) ==
    LET q == n \div d
        r == n % d
    IN  IF 2 * r < d THEN q
        ELSE IF 2 * r > d THEN q + 1
        ELSE IF q % 2 = 0 THEN q ELSE q + 1

\* dict.get(key, default)
Get(d, k, default) == IF k \in DOMAIN d THEN d[k] ELSE default

\* dict.update(other): the keys of other replace those of d
Update(d, other) ==
    [k \in (DOMAIN d) \cup (DOMAIN other) |->
        IF k \in DOMAIN other THEN other[k] ELSE d[k]]

\* Python truthiness of an optional dict
Truthy(v) == v # None

\* An empty dict ({}), and its falsiness
EmptyDict == <<>>

IsEmpty(d) == DOMAIN d = {}

\* The number of entries of a sequence that satisfy a membership test
RECURSIVE CountIn(_, _)
CountIn(seq, set) ==
    IF seq = <<>> THEN 0
    ELSE (IF Head(seq) \in set THEN 1 ELSE 0) + CountIn(Tail(seq), set)

\* ------------------------------------------------------------------------
\* SupportResistanceAnalyzer (support_resistance.py)
\* ------------------------------------------------------------------------

\* _cluster_price_levels, the strength rating of a closed cluster;
\* avg_strength in hundredths of a percent
StrengthRating(touch_count, avg_strength) ==
    IF touch_count >= 3 /\ avg_strength >= 300 THEN "strong"
    ELSE IF touch_count >= 2 /\ avg_strength >= 200 THEN "medium"
    ELSE "weak"

\* A price level as _cluster_price_levels builds it
Level(price, touch_count, avg_strength, level_type) ==
    [price |-> price, touch_count |-> touch_count,
     avg_strength |-> avg_strength,
     strength_rating |-> StrengthRating(touch_count, avg_strength),
     level_type |-> level_type]

\* The distance record of _analyze_current_position: price_diff and the
\* percentage of the current price, rounded to two decimals
Distance(diff, current_price) ==
    [price_diff |-> diff,
     percentage |-> RoundDiv(diff * 10000, current_price)]

\* The position label for a proximity threshold (in hundredths of a
\* percent): resistance is tested first.  _analyze_current_position uses it
\* with 1.0%, the strategy's adjustment with its own threshold.
PositionDescription(resistance_distance, support_distance, threshold) ==
    IF Truthy(resistance_distance)
          /\ resistance_distance.percentage <= threshold
    THEN "near_resistance"
    ELSE IF Truthy(support_distance)
               /\ support_distance.percentage <= threshold
    THEN "near_support"
    ELSE IF Truthy(resistance_distance) /\ Truthy(support_distance)
    THEN IF resistance_distance.percentage < support_distance.percentage
         THEN "lean_resistance" ELSE "lean_support"
    ELSE "neutral"

AnalyzerProximity == 100

\* _analyze_current_position: the nearest resistance above and the nearest
\* support below the current price, their distances and the label
AnalyzeCurrentPosition(current_price, resistance_levels, support_levels) ==
    LET above_resistances ==
            {r \in resistance_levels : r.price > current_price}
        below_supports == {s \in support_levels : s.price < current_price}
        nearest_resistance ==
            IF above_resistances = {} THEN None
            ELSE CHOOSE r \in above_resistances :
                    \A o \in above_resistances : r.price <= o.price
        nearest_support ==
            IF below_supports = {} THEN None
            ELSE CHOOSE s \in below_supports :
                    \A o \in below_supports : s.price >= o.price
        resistance_distance ==
            IF nearest_resistance = None THEN None
            ELSE Distance(nearest_resistance.price - current_price,
                          current_price)
        support_distance ==
            IF nearest_support = None THEN None
            ELSE Distance(current_price - nearest_support.price,
                          current_price)
    IN  [current_price |-> current_price,
         position_description |->
             PositionDescription(resistance_distance, support_distance,
                                 AnalyzerProximity),
         nearest_resistance |-> nearest_resistance,
         nearest_support |-> nearest_support,
         resistance_distance |-> resistance_distance,
         support_distance |-> support_distance]

\* find_local_extrema refuses a series shorter than 2 * window + 1
ExtremaComputable(nbars, window) == nbars >= window * 2 + 1

\* analyze_price_action: the result dict.  The levels the clustering finds
\* in the series are part of the data frame of the model (df.resistance,
\* df.support); "support_resistance" holds the levels dict, whose
\* current_position is None when there is no level at all.
AnalyzePriceAction(df) ==
    LET position ==
            IF df.resistance # {} \/ df.support # {}
            THEN AnalyzeCurrentPosition(df.close, df.resistance, df.support)
            ELSE None
    IN  [current_price |-> df.close,
         support_resistance |->
             [resistance_levels |-> df.resistance,
              support_levels |-> df.support,
              total_resistance |-> Cardinality(df.resistance),
              total_support |-> Cardinality(df.support),
              current_position |-> position],
         summary |-> [total_analysis_points |-> df.nbars]]

\* ------------------------------------------------------------------------
\* TechnicalIndicators (indicators.py)
\* ------------------------------------------------------------------------

RsiPeriod == 14

AtrPeriod == 14

MacdSlow == 26

MacdSignal == 9

\* calculate_rsi and calculate_atr raise below period + 1 bars,
\* calculate_macd below slow + signal bars
RsiComputable(nbars) == nbars >= RsiPeriod + 1

AtrComputable(nbars) == nbars >= AtrPeriod + 1

MacdComputable(nbars) == nbars >= MacdSlow + MacdSignal

\* analyze_macd_signals: the signal type follows the cross
MacdAnalysis(tech) ==
    [cross_signal |-> tech.cross,
     signal_type |-> IF tech.cross = "golden" THEN "buy_signal"
                     ELSE IF tech.cross = "death" THEN "sell_signal"
                     ELSE "no_signal",
     position |-> tech.zone,
     histogram_trend |-> tech.hist_trend]

\* get_technical_summary succeeds only if RSI, MACD and ATR all compute
SummaryComputable(nbars) ==
    RsiComputable(nbars) /\ MacdComputable(nbars) /\ AtrComputable(nbars)

SummaryWindow == 5

\* get_technical_summary: the summary dict.  Its own call of
\* analyze_price_action (window 5) is guarded by a try/except; when it
\* succeeds the key "support_resistance" is added, and it holds the whole
\* result of analyze_price_action, not the levels dict.
TechnicalSummary(df) ==
    LET summary ==
            [current_price |-> df.close,
             indicators |->
                 [rsi_14 |-> [current_rsi |-> df.tech.rsi],
                  macd |-> MacdAnalysis(df.tech),
                  atr |-> [current_atr |-> df.atr,
                           atr_trend |-> df.tech.atr_trend]],
             price_position |-> df.tech.price_position]
    IN  IF ExtremaComputable(df.nbars, SummaryWindow)
        THEN Update(summary, [support_resistance |-> AnalyzePriceAction(df)])
        ELSE summary

\* ------------------------------------------------------------------------
\* TradingSignal (strategies.py)
\* ------------------------------------------------------------------------

\* An absent stop_loss / take_profit (None).  _validate rejects a stop or
\* target that is given and not positive, so in a valid signal 0 is free to
\* stand for None, as it does in the code's own truth tests
\* ("if self.stop_loss").
NoValue == 0

\* TradingSignal._validate
ValidSignal(sig) ==
    /\ sig.signal_type \in {"buy", "sell", "hold"}
    /\ sig.action \in {"enter", "exit", "hold"}
    /\ sig.price > 0
    /\ (sig.stop_loss # NoValue => sig.stop_loss > 0)
    /\ (sig.take_profit # NoValue => sig.take_profit > 0)

\* TradingSignal.__init__: the confidence is clamped into [0, 1]; metadata
\* is the dict itself in the strategy and a reference into the heap in the
\* filter (Python assigns the caller's object, it does not copy it).
NewSignal(signal_type, action, confidence, price, timestamp, stop_loss, take_profit, position_size, metadata) ==
    [signal_type |-> signal_type, action |-> action,
     confidence |-> Clamp01(confidence), price |-> price,
     timestamp |-> timestamp,
     stop_loss |-> stop_loss, take_profit |-> take_profit,
     position_size |-> position_size, metadata |-> metadata]

\* ------------------------------------------------------------------------
\* SupportResistanceStrategy (strategies.py)
\* ------------------------------------------------------------------------

\* _is_level_strong_enough
StrengthOrder(rating) ==
    IF rating = "weak" THEN 1
    ELSE IF rating = "medium" THEN 2
    ELSE IF rating = "strong" THEN 3
    ELSE 0

IsLevelStrongEnough(level_info, min_strength) ==
    StrengthOrder(level_info.strength_rating) >=
        (IF min_strength \in {"weak", "medium", "strong"}
         THEN StrengthOrder(min_strength) ELSE 1)

\* _calculate_confidence: 0.5, plus the rating, the touches and the distance
CalculateConfidence(distance_info, level_info) ==
    LET rating == level_info.strength_rating
        by_rating == IF rating = "strong" THEN Conf(200)
                     ELSE IF rating = "medium" THEN Conf(100) ELSE 0
        by_touch == Min2(Conf(150), level_info.touch_count * Conf(50))
        by_distance ==
            IF ~Truthy(distance_info) THEN 0
            ELSE IF distance_info.percentage <= 100 THEN Conf(150)
            ELSE IF distance_info.percentage <= 200 THEN Conf(100)
            ELSE IF distance_info.percentage <= 300 THEN Conf(50)
            ELSE 0
    IN  Clamp01(Conf(500) + by_rating + by_touch + by_distance)

\* The moving-average part shared by the buy and the sell confirmations:
\* the number of averages on the wanted side and the number that are known
SideCount(full_analysis, side) ==
    CountIn(Get(full_analysis, "price_position", <<>>), {side})

KnownCount(full_analysis) ==
    CountIn(Get(full_analysis, "price_position", <<>>), {"above", "below"})

\* The RSI part of the confirmations, <<hit, extreme>>: oversold from 35
\* (extra strength from 25) for a buy, overbought from 65 (75) for a sell
RsiFlags(current_rsi, side) ==
    IF side = "buy" THEN <<current_rsi <= 3500, current_rsi <= 2500>>
    ELSE <<current_rsi >= 6500, current_rsi >= 7500>>

RsiConfirmation(rsi_data, side) ==
    IF IsEmpty(rsi_data) \/ "error" \in DOMAIN rsi_data
    THEN <<FALSE, FALSE>>
    ELSE RsiFlags(Get(rsi_data, "current_rsi", 5000), side)

\* The MACD part, <<cross, zone>>: a cross on the wanted side, or else (elif)
\* the wanted zone with the histogram moving the wanted way
MacdCross(macd_data, side) ==
    IF side = "buy"
    THEN Get(macd_data, "signal_type", "") = "buy_signal"
         \/ Get(macd_data, "cross_signal", "") = "golden"
    ELSE Get(macd_data, "signal_type", "") = "sell_signal"
         \/ Get(macd_data, "cross_signal", "") = "death"

MacdZone(macd_data, side) ==
    IF side = "buy"
    THEN Get(macd_data, "position", "") = "bull_zone"
         /\ Get(macd_data, "histogram_trend", "") = "rising"
    ELSE Get(macd_data, "position", "") = "bear_zone"
         /\ Get(macd_data, "histogram_trend", "") = "falling"

MacdConfirmation(macd_data, side) ==
    IF IsEmpty(macd_data) \/ "error" \in DOMAIN macd_data
    THEN <<FALSE, FALSE>>
    ELSE IF MacdCross(macd_data, side) THEN <<TRUE, FALSE>>
    ELSE <<FALSE, MacdZone(macd_data, side)>>

\* The moving-average part, <<hit, strength>>: at least half of the known
\* averages on the wanted side; 0.1 + (ratio - 0.5) * 0.2 = 0.2 * ratio
MaConfirmation(on_side, known) ==
    IF known > 0 /\ 2 * on_side >= known
    THEN <<TRUE, (Conf(200) * on_side) \div known>>
    ELSE <<FALSE, 0>>

\* The dict the confirmations are returned in, with the buy names (in a
\* sell, rsi_oversold stands for rsi_overbought, and so on)
ConfirmationRecord(rsi, macd, ma) ==
    [rsi_oversold |-> rsi[1],
     macd_bullish |-> macd[1] \/ macd[2],
     moving_avg_support |-> ma[1],
     confirmation_count |-> (IF rsi[1] THEN 1 ELSE 0)
                            + (IF macd[1] \/ macd[2] THEN 1 ELSE 0)
                            + (IF ma[1] THEN 1 ELSE 0),
     confirmation_strength |-> (IF rsi[1] THEN Conf(200) ELSE 0)
                               + (IF rsi[2] THEN Conf(100) ELSE 0)
                               + (IF macd[1] THEN Conf(250) ELSE 0)
                               + (IF macd[2] THEN Conf(150) ELSE 0)
                               + ma[2]]

\* _analyze_technical_confirmations_for_buy / _for_sell; side is "buy" or
\* "sell"
TechnicalConfirmations(full_analysis, side) ==
    ConfirmationRecord(
        RsiConfirmation(Get(Get(full_analysis, "indicators", EmptyDict),
                            "rsi_14", EmptyDict), side),
        MacdConfirmation(Get(Get(full_analysis, "indicators", EmptyDict),
                             "macd", EmptyDict), side),
        MaConfirmation(SideCount(full_analysis,
                                 IF side = "buy" THEN "above" ELSE "below"),
                       KnownCount(full_analysis)))

\* _analyze_volume_for_buy / _for_sell: a fixed base value
VolumeConfirmation ==
    [increasing_volume |-> FALSE, above_average |-> FALSE,
     confirmation_strength |-> Conf(50)]

\* The ATR part of the trend confirmation: volatility falling for a buy,
\* rising for a sell
AtrTrendHit(atr_data, side) ==
    /\ ~IsEmpty(atr_data)
    /\ "error" \notin DOMAIN atr_data
    /\ Get(atr_data, "atr_trend", "") =
           (IF side = "buy" THEN "falling" ELSE "rising")

\* The trend from the moving averages: strong from 60% of the known averages
\* on the wanted side, weak from 40%
TrendRecord(on_side, known, atr_hit, side) ==
    LET strong == known > 0 /\ 10 * on_side >= 6 * known
        weak == known > 0 /\ ~strong /\ 10 * on_side >= 4 * known
    IN  [uptrend |-> strong,
         trend_strength |-> IF strong THEN "strong"
                            ELSE IF weak THEN (IF side = "buy" THEN "weak_up"
                                               ELSE "weak_down")
                            ELSE "neutral",
         confirmation_strength |->
             (IF strong THEN Conf(150) ELSE IF weak THEN Conf(50) ELSE 0)
             + (IF atr_hit THEN Conf(50) ELSE 0)]

\* _analyze_trend_for_buy / _for_sell
TrendConfirmation(full_analysis, side) ==
    TrendRecord(SideCount(full_analysis,
                          IF side = "buy" THEN "above" ELSE "below"),
                KnownCount(full_analysis),
                AtrTrendHit(Get(Get(full_analysis, "indicators", EmptyDict),
                                "atr", EmptyDict), side),
                side)

\* _calculate_enhanced_buy_confidence / _sell_confidence
EnhancedConfidence(base_confidence, technical_confirmations, volume_confirmation, trend_confirmation) ==
    LET count == technical_confirmations.confirmation_count
    IN  Clamp01(base_confidence
                + technical_confirmations.confirmation_strength
                + volume_confirmation.confirmation_strength
                + trend_confirmation.confirmation_strength
                + (IF count >= 2 THEN Conf(100) ELSE 0)
                + (IF count >= 3 THEN Conf(50) ELSE 0))

\* The reward multiple of _calculate_enhanced_risk_levels, in halves:
\* 3 : 1 from a confirmation strength of 0.3, 2.5 : 1 from 0.15, else 2 : 1
RewardHalves(technical_confirmations) ==
    IF technical_confirmations.confirmation_strength >= Conf(300) THEN 6
    ELSE IF technical_confirmations.confirmation_strength >= Conf(150) THEN 5
    ELSE 4

\* _calculate_enhanced_risk_levels (buy) and
\* _calculate_enhanced_sell_risk_levels (sell): <<stop_loss, take_profit>>.
\* atr_multiplier is in tenths.
EnhancedRiskLevels(side, current_price, current_atr, level_info, technical_confirmations, atr_multiplier) ==
    LET atr_distance == (current_atr * atr_multiplier) \div 10
        halves == RewardHalves(technical_confirmations)
        support_stop == (level_info.price * 98) \div 100
        resistance_stop == (level_info.price * 102) \div 100
        stop_loss ==
            IF side = "buy"
            THEN Max2(support_stop, current_price - atr_distance)
            ELSE Min2(resistance_stop, current_price + atr_distance)
        risk_distance == IF side = "buy" THEN current_price - stop_loss
                         ELSE stop_loss - current_price
        take_profit ==
            IF side = "buy"
            THEN current_price + (risk_distance * halves) \div 2
            ELSE current_price - (risk_distance * halves) \div 2
    IN  <<stop_loss, take_profit>>

\* The position multiplier of _calculate_dynamic_position_size, in tenths
PositionMultiplier(confirmation_count) ==
    IF confirmation_count >= 3 THEN 12
    ELSE IF confirmation_count >= 2 THEN 11
    ELSE 10

MinPosition == Conf(50)

MaxPosition == Conf(600)

\* confidence * 0.5 * multiplier
UnclampedPosition(confidence, confirmation_count) ==
    (confidence * PositionMultiplier(confirmation_count)) \div 20

\* A mutant of DynamicPositionSize: the factor 0.5 is lost
DynamicPositionSize_NoHalf(confidence, technical_confirmations) ==
    Max2(MinPosition,
         Min2(MaxPosition,
              2 * UnclampedPosition(confidence,
                      technical_confirmations.confirmation_count)))

\* _calculate_dynamic_position_size
DynamicPositionSize(confidence, technical_confirmations) ==
    Max2(MinPosition,
         Min2(MaxPosition,
              UnclampedPosition(confidence,
                                technical_confirmations.confirmation_count)))

\* A mutant of BelowMinConfidence: the check is dropped
BelowMinConfidence_Dropped(enhanced_confidence, config) == FALSE

\* Step 6 of _generate_enhanced_buy_signal / _sell_signal: the candidate is
\* discarded below the configured min_confidence
BelowMinConfidence(enhanced_confidence, config) ==
    enhanced_confidence < config.min_confidence

\* Steps 7 to 9 of _generate_enhanced_buy_signal / _sell_signal: the signal
\* object with its metadata
BuildSignal(side, current_price, current_time, current_atr, level_info, base_confidence, technical_confirmations, enhanced_confidence, levels) ==
    NewSignal(side, "enter", enhanced_confidence, current_price,
              current_time, levels[1], levels[2],
              DynamicPositionSize(enhanced_confidence,
                                  technical_confirmations),
              [level |-> level_info.price,
               level_strength |-> level_info.strength_rating,
               atr_value |-> current_atr,
               technical_confirmations |-> technical_confirmations,
               base_confidence |-> base_confidence,
               enhancement_factor |-> enhanced_confidence - base_confidence])

\* Steps 6 to 9: None below min_confidence, and None when the constructor
\* rejects the stop or the target (the ValueError is caught)
EmitOrDiscard(enhanced_confidence, levels, signal, config) ==
    IF BelowMinConfidence(enhanced_confidence, config) THEN None
    ELSE IF levels[1] <= 0 \/ levels[2] <= 0 \/ ~ValidSignal(signal)
    THEN None
    ELSE signal

\* Steps 4 to 9, from the base confidence and the confirmations
SignalFromConfirmations(side, current_price, current_time, current_atr, level_info, base_confidence, technical_confirmations, enhanced_confidence, config) ==
    EmitOrDiscard(
        enhanced_confidence,
        EnhancedRiskLevels(side, current_price, current_atr, level_info,
                           technical_confirmations, config.atr_multiplier),
        BuildSignal(side, current_price, current_time, current_atr,
                    level_info, base_confidence, technical_confirmations,
                    enhanced_confidence,
                    EnhancedRiskLevels(side, current_price, current_atr,
                                       level_info, technical_confirmations,
                                       config.atr_multiplier)),
        config)

\* Step 4, the enhanced confidence, handed on with what it was made from
SignalFromParts(side, current_price, current_time, current_atr, level_info, base_confidence, technical_confirmations, trend_confirmation, config) ==
    SignalFromConfirmations(
        side, current_price, current_time, current_atr, level_info,
        base_confidence, technical_confirmations,
        EnhancedConfidence(base_confidence, technical_confirmations,
                           VolumeConfirmation, trend_confirmation),
        config)

\* _generate_enhanced_buy_signal / _generate_enhanced_sell_signal: the
\* signal, or None
GenerateEnhancedSignal(side, current_price, current_time, current_atr, level_info, distance_info, full_analysis, config) ==
    SignalFromParts(side, current_price, current_time, current_atr,
                    level_info,
                    CalculateConfidence(distance_info, level_info),
                    TechnicalConfirmations(full_analysis, side),
                    TrendConfirmation(full_analysis, side),
                    config)

\* _generate_signal_from_position: the support test comes first, and the
\* resistance test is its elif
GenerateSignalFromPosition(position_info, current_price, current_time, current_atr, full_analysis, config) ==
    LET position_desc == Get(position_info, "position_description", "")
        resistance_distance == Get(position_info, "resistance_distance", None)
        support_distance == Get(position_info, "support_distance", None)
        nearest_resistance == Get(position_info, "nearest_resistance", None)
        nearest_support == Get(position_info, "nearest_support", None)
        proximity_threshold == config.proximity_threshold
        min_strength == config.min_strength_rating
    IN  IF position_desc = "near_support"
           \/ (Truthy(support_distance)
               /\ support_distance.percentage <= proximity_threshold)
        THEN IF Truthy(nearest_support)
                /\ IsLevelStrongEnough(nearest_support, min_strength)
             THEN GenerateEnhancedSignal("buy", current_price, current_time,
                                         current_atr, nearest_support,
                                         support_distance, full_analysis,
                                         config)
             ELSE None
        ELSE IF position_desc = "near_resistance"
                \/ (Truthy(resistance_distance)
                    /\ resistance_distance.percentage <= proximity_threshold)
        THEN IF Truthy(nearest_resistance)
                /\ IsLevelStrongEnough(nearest_resistance, min_strength)
             THEN GenerateEnhancedSignal("sell", current_price, current_time,
                                         current_atr, nearest_resistance,
                                         resistance_distance, full_analysis,
                                         config)
             ELSE None
        ELSE None

\* _adjust_position_analysis_with_proximity_threshold: a copy of the
\* position with the label recomputed for the strategy's threshold
AdjustPosition(current_position, proximity_threshold) ==
    [current_position EXCEPT !.position_description =
        PositionDescription(current_position.resistance_distance,
                            current_position.support_distance,
                            proximity_threshold)]

\* validate_data: the columns are there (df.columns_ok) and the frame is
\* not empty
ValidateData(df) == df.columns_ok /\ df.nbars > 0

\* Lines 275-282 of analyze: the position of the analysis is replaced by the
\* one adjusted for the strategy's threshold, when there is one
WithAdjustedPosition(analysis, proximity_threshold) ==
    IF Truthy(analysis.support_resistance.current_position)
    THEN [analysis EXCEPT !.support_resistance.current_position =
              AdjustPosition(@, proximity_threshold)]
    ELSE analysis

\* The analysis dict of analyze just before the signal is generated: the
\* result of analyze_price_action with the adjusted position, updated with
\* the technical summary when the summary can be computed
FullAnalysis(df, config) ==
    IF SummaryComputable(df.nbars)
    THEN Update(WithAdjustedPosition(AnalyzePriceAction(df),
                                     config.proximity_threshold),
                TechnicalSummary(df))
    ELSE WithAdjustedPosition(AnalyzePriceAction(df),
                              config.proximity_threshold)

\* The position analyze reads back from the analysis dict:
\* analysis.get('support_resistance', {}).get('current_position')
PositionRead(full_analysis) ==
    Get(Get(full_analysis, "support_resistance", EmptyDict),
        "current_position", None)

\* The list analyze returns for a generated signal (or None)
SignalList(signal) == IF signal = None THEN <<>> ELSE <<signal>>

\* Lines 299-312 of analyze: no position, no signal
SignalsOfAnalysis(full_analysis, df, config, current_time) ==
    IF ~Truthy(PositionRead(full_analysis)) THEN <<>>
    ELSE SignalList(
             GenerateSignalFromPosition(PositionRead(full_analysis),
                                        df.close, current_time, df.atr,
                                        full_analysis, config))

\* SupportResistanceStrategy.analyze: the list of signals it returns (empty
\* or one signal).  Every exception inside is caught and gives [].
Analyze(df, config, current_time) ==
    IF ~ValidateData(df) THEN <<>>
    ELSE IF ~ExtremaComputable(df.nbars, config.window) THEN <<>>
    ELSE IF ~AtrComputable(df.nbars) THEN <<>>
    ELSE SignalsOfAnalysis(FullAnalysis(df, config), df, config,
                           current_time)

\* ------------------------------------------------------------------------
\* The strategy as a state machine
\* ------------------------------------------------------------------------

\* The strategy keeps the signals of at most MaxHistory runs before
\* clear_signals is called
MaxHistory == 1

\* Configurations the strategy is constructed with: the defaults of
\* __init__, the configuration of the repository's simple tests, one with a
\* high min_confidence and one that asks for strong levels close by.
\* proximity_threshold in hundredths of a percent, atr_multiplier in tenths.
DefaultConfig ==
    [window |-> 5, proximity_threshold |-> 200, min_confidence |-> Conf(600),
     atr_multiplier |-> 20, min_strength_rating |-> "weak"]

TestConfig ==
    [window |-> 3, proximity_threshold |-> 500, min_confidence |-> Conf(300),
     atr_multiplier |-> 20, min_strength_rating |-> "weak"]

HighConfidenceConfig ==
    [window |-> 5, proximity_threshold |-> 200, min_confidence |-> Conf(800),
     atr_multiplier |-> 20, min_strength_rating |-> "weak"]

StrongOnlyConfig ==
    [window |-> 5, proximity_threshold |-> 100, min_confidence |-> Conf(600),
     atr_multiplier |-> 20, min_strength_rating |-> "strong"]

Configs == {DefaultConfig, TestConfig, HighConfidenceConfig, StrongOnlyConfig}

\* The last close of every series of the model
ClosePool == {Dollars(9900)}

\* Levels the clustering may have found: a support at 98.50 with four
\* touches (rated strong) and one at 97.60 with a single touch (weak), a
\* resistance at 99.30 with two touches (medium) and one at 103.00 (weak)
SupportPool ==
    {Level(Dollars(9850), 4, 350, "support"),
     Level(Dollars(9760), 1, 143, "support")}

ResistancePool ==
    {Level(Dollars(9930), 2, 250, "resistance"),
     Level(Dollars(10300), 1, 404, "resistance")}

\* The last ATR(14) value of a series with price ranges: 0.50 and 3.00
AtrPool == {Dollars(50), Dollars(300)}

\* A series whose bars all have High = Low = previous Close has an ATR of 0:
\* its closes are constant up to the last bar, so the only extremum is the
\* last window's, and the clustering finds exactly one single-touch level,
\* below the last close (a support) or above it (a resistance)
FlatLevels ==
    {<<{}, {l}>> : l \in {s \in SupportPool : s.touch_count = 1}}
    \cup {<<{l}, {}>> : l \in {r \in ResistancePool : r.touch_count = 1}}

\* Series lengths: empty, too short for ATR(14), long enough for ATR but
\* not for MACD(12, 26, 9), long enough for every indicator
BarsPool == {0, 10, 20, 40}

\* What the indicators say on the last bar (RSI in hundredths)
NoTech ==
    [rsi |-> 5000, cross |-> "none", zone |-> "transition",
     hist_trend |-> "unknown", atr_trend |-> "unknown",
     price_position |-> <<"below", "below", "below">>]

TechPool ==
    {[NoTech EXCEPT !.rsi = 2500, !.cross = "golden"],
     [NoTech EXCEPT !.rsi = 2500, !.cross = "golden",
                    !.price_position = <<"above", "above", "above">>],
     [NoTech EXCEPT !.zone = "bull_zone", !.hist_trend = "rising",
                    !.price_position = <<"above", "above", "below">>],
     [NoTech EXCEPT !.rsi = 7500, !.cross = "death",
                    !.atr_trend = "rising"],
     NoTech}

\* A data frame: its length, the last close, the last ATR, the levels the
\* clustering finds in it and the indicator readings of the last bar
Frame(n, c, a, r, s, t) ==
    [nbars |-> n, columns_ok |-> TRUE, close |-> c, atr |-> a,
     resistance |-> r, support |-> s, tech |-> t]

\* The data frames of the model.  The indicator readings only exist when
\* the summary can be computed, the ATR only when it can be computed.
DataFrames ==
    {Frame(0, c, 0, {}, {}, NoTech) : c \in ClosePool}
    \cup {Frame(10, c, 0, r, s, NoTech) :
            c \in ClosePool, r \in {{}, ResistancePool},
            s \in {{}, SupportPool}}
    \cup {Frame(20, c, a, r, s, NoTech) :
            c \in ClosePool, a \in AtrPool,
            r \in SUBSET ResistancePool, s \in SUBSET SupportPool}
    \cup {Frame(20, c, 0, rs[1], rs[2], NoTech) :
            c \in ClosePool, rs \in FlatLevels}
    \cup {Frame(40, c, Dollars(50), r, s, t) :
            c \in ClosePool, r \in SUBSET ResistancePool,
            s \in SUBSET SupportPool, t \in TechPool}

NoFrame ==
    [nbars |-> 0, columns_ok |-> FALSE, close |-> 0, atr |-> 0,
     resistance |-> {}, support |-> {}, tech |-> NoTech]

\* ------------------------------------------------------------------------
\* TradingSignal.to_dict and SignalFilter (signal_filter.py)
\* ------------------------------------------------------------------------

\* Timestamps count half seconds: a datetime carries a fraction of a second,
\* which strftime('%Y-%m-%d %H:%M:%S') drops
Second == 2

Minute == 60 * Second

Hour == 60 * Minute

Day == 24 * Hour

\* 0.001 of confidence or position size, the resolution of round(x, 3)
Milli == ConfScale \div 1000

\* round(x, 3) with unit Milli, round(x, 2) with unit Cent
RoundTo(n, unit) == RoundDiv(n, unit) * unit

\* The timestamp string of to_dict, read back by _parse_timestamp
TruncateToSecond(t) == (t \div Second) * Second

\* TradingSignal.to_dict: rounded copies of the numbers, the timestamp to the
\* second, and the metadata dict itself (the same object, here its id)
ToDict(signal) ==
    [signal_type |-> signal.signal_type,
     action |-> signal.action,
     confidence |-> RoundTo(signal.confidence, Milli),
     price |-> RoundTo(signal.price, Cent),
     timestamp |-> TruncateToSecond(signal.timestamp),
     stop_loss |-> IF signal.stop_loss # NoValue
                   THEN RoundTo(signal.stop_loss, Cent) ELSE NoValue,
     take_profit |-> IF signal.take_profit # NoValue
                     THEN RoundTo(signal.take_profit, Cent) ELSE NoValue,
     position_size |-> RoundTo(signal.position_size, Milli),
     metadata |-> signal.metadata]

\* SignalFilter._dict_to_signal: a new TradingSignal from the dict's values
DictToSignal(signal_dict) ==
    NewSignal(signal_dict.signal_type, signal_dict.action,
              signal_dict.confidence, signal_dict.price,
              signal_dict.timestamp, signal_dict.stop_loss,
              signal_dict.take_profit, signal_dict.position_size,
              signal_dict.metadata)

\* FilterCriteria with its dataclass defaults.  An Optional that is None is
\* written as the falsy value of its type (0, the empty set): the code tests
\* these fields by truthiness only.  min_risk_reward_ratio is in tenths.
FilterCriteria ==
    [min_confidence |-> Conf(500), max_confidence |-> Conf(1000),
     signal_types |-> {}, min_position_size |-> 0,
     max_position_size |-> Conf(1000), time_window_hours |-> 0,
     remove_duplicates |-> TRUE, market_conditions |-> {},
     min_risk_reward_ratio |-> 0, max_signals_per_day |-> 0]

\* The criteria filter_signals builds when it is given none:
\* config['default_min_confidence'] and config['default_max_signals_per_day']
DefaultCriteria ==
    [FilterCriteria EXCEPT !.min_confidence = Conf(650),
                           !.max_signals_per_day = 10]

\* config['duplicate_time_window_minutes']
DuplicateWindow == 30 * Minute

\* Quality scores in millionths
Quality(thousandths) == thousandths * 1000

\* config['quality_thresholds']
QualityThresholds ==
    [excellent |-> Quality(850), good |-> Quality(750),
     fair |-> Quality(650), poor |-> Quality(500)]

\* The entries of seq whose flag is the wanted one, in order
RECURSIVE Pick(_, _, _)
Pick(seq, flags, want) ==
    IF Len(seq) = 0 THEN <<>>
    ELSE (IF Head(flags) = want THEN <<Head(seq)>> ELSE <<>>)
         \o Pick(Tail(seq), Tail(flags), want)

\* sorted(seq, key=...): a stable sort by ascending integer keys
Rank(keys, i) ==
    1 + Cardinality({j \in 1..Len(keys) :
                        keys[j] < keys[i] \/ (keys[j] = keys[i] /\ j < i)})

StableSort(seq, keys) ==
    [k \in 1..Len(seq) |->
        seq[CHOOSE i \in 1..Len(seq) : Rank(keys, i) = k]]

\* An entry of removed_signals: the signal dict and the reason; the reason
\* string is the stage's text with one formatted value
Removal(signal, stage, detail) ==
    [signal |-> signal, reason |-> <<stage, detail>>]

\* The pipeline while filter_signals runs: the retained signal dicts, the
\* entries of filter_stats['filter_steps'] in the order they were written,
\* filter_stats['removed_signals'] and the metadata objects
Start(signals, heap) ==
    [signals |-> [i \in 1..Len(signals) |-> ToDict(signals[i])],
     steps |-> <<>>,
     removed_signals |-> <<>>,
     heap |-> heap]

\* A mutant of Advance: the stage does not extend
\* filter_stats['removed_signals']
Advance_RemovedForgotten(p, name, filtered, removed) ==
    [p EXCEPT !.signals = filtered,
              !.steps = Append(@, [name |-> name,
                                   original_count |-> Len(p.signals),
                                   filtered_count |-> Len(filtered),
                                   removed_count |-> Len(removed),
                                   removed_signals |-> removed])]

\* A mutant of Advance: the stage counts its signals after the removal
Advance_CountedLate(p, name, filtered, removed) ==
    [p EXCEPT !.signals = filtered,
              !.steps = Append(@, [name |-> name,
                                   original_count |-> Len(filtered),
                                   filtered_count |-> Len(filtered),
                                   removed_count |-> Len(removed),
                                   removed_signals |-> removed]),
              !.removed_signals = @ \o removed]

\* A stage that went through its signals: step_stats and the extension of
\* filter_stats['removed_signals']
Advance(p, name, filtered, removed) ==
    [p EXCEPT !.signals = filtered,
              !.steps = Append(@, [name |-> name,
                                   original_count |-> Len(p.signals),
                                   filtered_count |-> Len(filtered),
                                   removed_count |-> Len(removed),
                                   removed_signals |-> removed]),
              !.removed_signals = @ \o removed]

\* A stage that returned early: its step_stats have the three counts only
ReturnEarly(p, name) ==
    [p EXCEPT !.steps = Append(@, [name |-> name,
                                   original_count |-> Len(p.signals),
                                   filtered_count |-> Len(p.signals),
                                   removed_count |-> 0])]

\* The loop shared by the stages: flags[i] says whether signal i is kept,
\* details[i] is the value in the reason of its removal
Loop(p, name, flags, details) ==
    Advance(p, name,
            Pick(p.signals, flags, TRUE),
            Pick([i \in 1..Len(p.signals) |->
                     Removal(p.signals[i], name, details[i])],
                 flags, FALSE))

\* _filter_by_confidence
FilterByConfidence(p, criteria) ==
    Loop(p, "confidence",
         [i \in 1..Len(p.signals) |->
             /\ criteria.min_confidence <= p.signals[i].confidence
             /\ p.signals[i].confidence <= criteria.max_confidence],
         [i \in 1..Len(p.signals) |-> p.signals[i].confidence])

\* _filter_by_signal_type
FilterBySignalType(p, criteria) ==
    Loop(p, "signal_type",
         [i \in 1..Len(p.signals) |->
             p.signals[i].signal_type \in criteria.signal_types],
         [i \in 1..Len(p.signals) |-> p.signals[i].signal_type])

\* A mutant of FilterByPositionSize: the upper bound is not tested
FilterByPositionSize_NoUpperBound(p, criteria) ==
    Loop(p, "position_size",
         [i \in 1..Len(p.signals) |->
             criteria.min_position_size <= p.signals[i].position_size],
         [i \in 1..Len(p.signals) |-> p.signals[i].position_size])

\* _filter_by_position_size
FilterByPositionSize(p, criteria) ==
    Loop(p, "position_size",
         [i \in 1..Len(p.signals) |->
             /\ criteria.min_position_size <= p.signals[i].position_size
             /\ p.signals[i].position_size <= criteria.max_position_size],
         [i \in 1..Len(p.signals) |-> p.signals[i].position_size])

\* _filter_by_time_window: a signal older than time_window_hours before
\* datetime.now() is removed
FilterByTimeWindow(p, criteria, current_time) ==
    IF criteria.time_window_hours = 0 THEN ReturnEarly(p, "time_window")
    ELSE Loop(p, "time_window",
              [i \in 1..Len(p.signals) |->
                  p.signals[i].timestamp >=
                      current_time - criteria.time_window_hours * Hour],
              [i \in 1..Len(p.signals) |-> p.signals[i].timestamp])

\* A mutant of IsDuplicate: only prices less than 0.1% apart are duplicates
IsDuplicate_Tight(signal, existing, window) ==
    /\ Abs(signal.timestamp - existing.timestamp) <= window
    /\ signal.signal_type = existing.signal_type
    /\ Abs(signal.price - existing.price) * 1000 < existing.price

\* The test of _remove_duplicate_signals: within the window, the same side,
\* and a price less than 1% away from the price of the signal already kept
\* (the prices of the model are positive, so the division is defined)
IsDuplicate(signal, existing, window) ==
    /\ Abs(signal.timestamp - existing.timestamp) <= window
    /\ signal.signal_type = existing.signal_type
    /\ Abs(signal.price - existing.price) * 100 < existing.price

HasDuplicate(signal, filtered, window) ==
    \E i \in 1..Len(filtered) : IsDuplicate(signal, filtered[i], window)

\* The first kept signal the inner loop breaks on
FirstDuplicate(signal, filtered, window) ==
    CHOOSE i \in 1..Len(filtered) :
        /\ IsDuplicate(signal, filtered[i], window)
        /\ \A j \in 1..(i - 1) : ~IsDuplicate(signal, filtered[j], window)

\* The outer loop over the signals sorted by time: <<filtered, removed>>
RECURSIVE Deduplicate(_, _, _, _)
Deduplicate(todo, filtered, removed, window) ==
    IF Len(todo) = 0 THEN <<filtered, removed>>
    ELSE IF HasDuplicate(Head(todo), filtered, window)
    THEN Deduplicate(
             Tail(todo), filtered,
             Append(removed,
                    Removal(Head(todo), "duplicates",
                            filtered[FirstDuplicate(Head(todo), filtered,
                                                    window)].timestamp)),
             window)
    ELSE Deduplicate(Tail(todo), Append(filtered, Head(todo)), removed,
                     window)

AdvancePair(p, name, pair) == Advance(p, name, pair[1], pair[2])

\* _remove_duplicate_signals
RemoveDuplicateSignals(p) ==
    IF Len(p.signals) <= 1 THEN ReturnEarly(p, "duplicates")
    ELSE AdvancePair(
             p, "duplicates",
             Deduplicate(StableSort(p.signals,
                                    [i \in 1..Len(p.signals) |->
                                        p.signals[i].timestamp]),
                         <<>>, <<>>, DuplicateWindow))

\* _calculate_risk_reward_ratio: None, or the reward and the risk (in cents:
\* the dict's prices are rounded to the cent) whose quotient is the ratio
RiskRewardRatio(signal) ==
    IF \/ signal.price <= 0
       \/ signal.stop_loss = NoValue
       \/ signal.take_profit = NoValue
    THEN None
    ELSE IF signal.signal_type \notin {"buy", "sell"} THEN None
    ELSE IF Abs(signal.price - signal.stop_loss) <= 0 THEN None
    ELSE [reward |-> Abs(signal.take_profit - signal.price) \div Cent,
          risk |-> Abs(signal.price - signal.stop_loss) \div Cent]

\* risk_reward_ratio >= min_risk_reward_ratio (in tenths)
RatioAtLeast(rr, min_tenths) == rr.reward * 10 >= min_tenths * rr.risk

\* The ratio as the reason prints it, in hundredths
RatioShown(rr) == IF rr = None THEN 0 ELSE RoundDiv(rr.reward * 100, rr.risk)

\* _filter_by_risk_reward: a signal without a ratio is kept
FilterByRiskReward(p, criteria) ==
    Loop(p, "risk_reward",
         [i \in 1..Len(p.signals) |->
             \/ RiskRewardRatio(p.signals[i]) = None
             \/ RatioAtLeast(RiskRewardRatio(p.signals[i]),
                             criteria.min_risk_reward_ratio)],
         [i \in 1..Len(p.signals) |->
             RatioShown(RiskRewardRatio(p.signals[i]))])

\* _assess_current_market_condition; volatility, volume_ratio and
\* trend_strength in thousandths
AssessCurrentMarketCondition(market_data) ==
    IF Get(market_data, "volatility", 0) > 50 THEN "high_volatility"
    ELSE IF Get(market_data, "volume_ratio", 1000) < 500 THEN "low_liquidity"
    ELSE IF Get(market_data, "trend_strength", 0) > 700 THEN "strong_trend"
    ELSE IF Get(market_data, "trend_strength", 0) < -700
    THEN "strong_downtrend"
    ELSE "normal"

\* _filter_by_market_conditions: all signals are kept or all are removed
FilterByMarketConditions(p, criteria, market_data) ==
    Loop(p, "market_conditions",
         [i \in 1..Len(p.signals) |->
             AssessCurrentMarketCondition(market_data)
                 \in criteria.market_conditions],
         [i \in 1..Len(p.signals) |->
             AssessCurrentMarketCondition(market_data)])

\* The tail of _limit_daily_signals: the signals sorted by descending
\* confidence, cut after max_signals_per_day
CutAfter(p, sorted_signals, max_signals) ==
    Advance(p, "daily_limit",
            SubSeq(sorted_signals, 1, max_signals),
            [k \in 1..(Len(sorted_signals) - max_signals) |->
                Removal(sorted_signals[max_signals + k], "daily_limit",
                        max_signals)])

\* A mutant of ByConfidenceDescending: the lowest confidence first
ByConfidenceDescending_Ascending(signal) == signal.confidence

\* The sort key of _limit_daily_signals: key=confidence, reverse=True
ByConfidenceDescending(signal) == 0 - signal.confidence

\* _limit_daily_signals
LimitDailySignals(p, criteria) ==
    IF Len(p.signals) <= criteria.max_signals_per_day
    THEN ReturnEarly(p, "daily_limit")
    ELSE CutAfter(p,
                  StableSort(p.signals,
                             [i \in 1..Len(p.signals) |->
                                 ByConfidenceDescending(p.signals[i])]),
                  criteria.max_signals_per_day)

\* The parts of _calculate_signal_quality_score, in millionths.
\* confidence * 0.4
ConfidencePart(signal) == (signal.confidence \div Milli) * 400

\* min(1.0, (risk_reward - 1.0) / 2.0) * 0.25, when there is a ratio that is
\* not 0
RewardPart(rr) ==
    IF rr = None THEN 0
    ELSE IF rr.reward = 0 THEN 0
    ELSE (Min2(Quality(1000),
               ((rr.reward - rr.risk) * Quality(1000)) \div (2 * rr.risk))
          * 25) \div 100

\* The share of truthy values of metadata['technical_confirmations'], * 0.2;
\* the model keeps the truth values of that dict as a sequence
ConfirmationPart(technical_confirmations) ==
    IF Len(technical_confirmations) = 0 THEN 0
    ELSE (CountIn(technical_confirmations, {TRUE}) * Quality(200))
         \div Len(technical_confirmations)

\* _assess_market_compatibility, in tenths
MarketCompatibility(signal_type, condition) ==
    IF signal_type \notin {"buy", "sell"} THEN 5
    ELSE IF condition = "normal" THEN 8
    ELSE IF condition = "strong_trend"
    THEN (IF signal_type = "buy" THEN 9 ELSE 3)
    ELSE IF condition = "strong_downtrend"
    THEN (IF signal_type = "buy" THEN 3 ELSE 9)
    ELSE IF condition = "high_volatility" THEN 6
    ELSE IF condition = "low_liquidity" THEN 4
    ELSE 5

\* market compatibility * 0.1, when market data is given
MarketPart(signal, market_data) ==
    IF ~Truthy(market_data) THEN 0
    ELSE MarketCompatibility(signal.signal_type,
                             AssessCurrentMarketCondition(market_data))
         * Quality(10)

\* _calculate_signal_freshness * 0.05: max(0, 1 - hours_old / 24) of the age
\* at datetime.now(); a day is 172800 half seconds, and
\* 1000000 / 172800 = 625 / 108
FreshnessPart(signal, current_time) ==
    (Max2(0, Quality(1000)
             - ((current_time - signal.timestamp) * 625) \div 108)
     * 5) \div 100

\* _calculate_signal_quality_score
QualityScore(signal, market_data, heap, current_time) ==
    Min2(Quality(1000),
         Max2(0, ConfidencePart(signal)
                 + RewardPart(RiskRewardRatio(signal))
                 + ConfirmationPart(
                       heap[signal.metadata].technical_confirmations)
                 + MarketPart(signal, market_data)
                 + FreshnessPart(signal, current_time)))

\* _get_quality_grade under config['quality_thresholds'] = thresholds
QualityGradeUnder(quality_score, thresholds) ==
    IF quality_score >= thresholds.excellent THEN "excellent"
    ELSE IF quality_score >= thresholds.good THEN "good"
    ELSE IF quality_score >= thresholds.fair THEN "fair"
    ELSE "poor"

\* _get_quality_grade of a filter with the default configuration
QualityGrade(quality_score) ==
    QualityGradeUnder(quality_score, QualityThresholds)

\* metadata['quality_score'] and metadata['quality_grade']
QualityEntriesUnder(quality_score, thresholds) ==
    [quality_score |-> quality_score,
     quality_grade |-> QualityGradeUnder(quality_score, thresholds)]

QualityEntries(quality_score) ==
    QualityEntriesUnder(quality_score, QualityThresholds)

\* The writes of _apply_advanced_quality_filters into the metadata of the
\* signals it keeps: signal['metadata'] is the dict of the TradingSignal the
\* caller passed in
WithQualityUnder(heap, signals, scores, thresholds) ==
    [id \in DOMAIN heap |->
        IF \E i \in 1..Len(signals) :
               /\ signals[i].metadata = id
               /\ scores[i] >= thresholds.poor
        THEN [heap[id] EXCEPT
                 !.quality =
                     QualityEntriesUnder(
                         scores[CHOOSE i \in 1..Len(signals) :
                                    signals[i].metadata = id],
                         thresholds)]
        ELSE heap[id]]

WithQuality(heap, signals, scores) ==
    WithQualityUnder(heap, signals, scores, QualityThresholds)

\* The loop of _apply_advanced_quality_filters over the computed scores; the
\* reason of a removal shows the score with three decimals
QualityLoopUnder(p, scores, thresholds) ==
    [Loop(p, "advanced_quality",
          [i \in 1..Len(p.signals) |-> scores[i] >= thresholds.poor],
          [i \in 1..Len(p.signals) |-> RoundDiv(scores[i], 1000)])
     EXCEPT !.heap = WithQualityUnder(p.heap, p.signals, scores, thresholds)]

QualityLoop(p, scores) == QualityLoopUnder(p, scores, QualityThresholds)

\* _apply_advanced_quality_filters under config['quality_thresholds'] =
\* thresholds
ApplyAdvancedQualityFiltersUnder(p, market_data, current_time, thresholds) ==
    QualityLoopUnder(p, [i \in 1..Len(p.signals) |->
                            QualityScore(p.signals[i], market_data, p.heap,
                                         current_time)],
                     thresholds)

\* _apply_advanced_quality_filters of a filter with the default
\* configuration
ApplyAdvancedQualityFilters(p, market_data, current_time) ==
    ApplyAdvancedQualityFiltersUnder(p, market_data, current_time,
                                     QualityThresholds)

\* A mutant of SignalTypeStage: the stage runs whatever the criteria say
SignalTypeStage_Always(p, criteria) == FilterBySignalType(p, criteria)

\* The stages filter_signals runs only when their criterion is set
SignalTypeStage(p, criteria) ==
    IF criteria.signal_types # {} THEN FilterBySignalType(p, criteria)
    ELSE p

TimeWindowStage(p, criteria, current_time) ==
    IF criteria.time_window_hours # 0
    THEN FilterByTimeWindow(p, criteria, current_time)
    ELSE p

DuplicateStage(p, criteria) ==
    IF criteria.remove_duplicates THEN RemoveDuplicateSignals(p) ELSE p

RiskRewardStage(p, criteria) ==
    IF criteria.min_risk_reward_ratio # 0 THEN FilterByRiskReward(p, criteria)
    ELSE p

MarketStage(p, criteria, market_data) ==
    IF criteria.market_conditions # {} /\ Truthy(market_data)
    THEN FilterByMarketConditions(p, criteria, market_data)
    ELSE p

DailyLimitStage(p, criteria) ==
    IF criteria.max_signals_per_day # 0 THEN LimitDailySignals(p, criteria)
    ELSE p

\* The result dict of filter_signals: the signals rebuilt from the retained
\* dicts and the statistics; heap is the metadata as the call leaves it
Finish(p, original_count) ==
    [filtered_signals |->
         [i \in 1..Len(p.signals) |-> DictToSignal(p.signals[i])],
     statistics |-> [original_count |-> original_count,
                     filtered_count |-> Len(p.signals),
                     filter_steps |-> p.steps,
                     removed_signals |-> p.removed_signals],
     heap |-> p.heap]

\* _get_empty_filter_result
EmptyFilterResult(heap) ==
    [filtered_signals |-> <<>>,
     statistics |-> [original_count |-> 0, filtered_count |-> 0,
                     filter_steps |-> <<>>, removed_signals |-> <<>>],
     heap |-> heap]

\* SignalFilter.filter_signals of a filter constructed with
\* config = {'quality_thresholds': thresholds}
FilterSignalsUnder(signals, criteria, market_data, heap, current_time, thresholds) ==
    IF Len(signals) = 0 THEN EmptyFilterResult(heap)
    ELSE Finish(
           ApplyAdvancedQualityFiltersUnder(
             DailyLimitStage(
               MarketStage(
                 RiskRewardStage(
                   DuplicateStage(
                     TimeWindowStage(
                       FilterByPositionSize(
                         SignalTypeStage(
                           FilterByConfidence(Start(signals, heap), criteria),
                           criteria),
                         criteria),
                       criteria, current_time),
                     criteria),
                   criteria),
                 criteria, market_data),
               criteria),
             market_data, current_time, thresholds),
           Len(signals))

\* SignalFilter.filter_signals of a filter with the default configuration
FilterSignalsResult(signals, criteria, market_data, heap, current_time) ==
    FilterSignalsUnder(signals, criteria, market_data, heap, current_time,
                       QualityThresholds)

\* The names of the stages, the keys of filter_stats['filter_steps'], in
\* the order filter_signals runs them
StageOrder ==
    <<"confidence", "signal_type", "position_size", "time_window",
      "duplicates", "risk_reward", "market_conditions", "daily_limit",
      "advanced_quality">>

StagePosition(name) == CHOOSE k \in 1..Len(StageOrder) : StageOrder[k] = name

\* The criteria with the setting of one stage at the value under which the
\* stage lets every signal pass: the full range for the two range stages,
\* None or False for the optional ones
StageOff(criteria, stage) ==
    CASE stage = "confidence" ->
             [criteria EXCEPT !.min_confidence = 0,
                              !.max_confidence = Conf(1000)]
      [] stage = "signal_type" -> [criteria EXCEPT !.signal_types = {}]
      [] stage = "position_size" ->
             [criteria EXCEPT !.min_position_size = 0,
                              !.max_position_size = Conf(1000)]
      [] stage = "time_window" -> [criteria EXCEPT !.time_window_hours = 0]
      [] stage = "duplicates" -> [criteria EXCEPT !.remove_duplicates = FALSE]
      [] stage = "risk_reward" ->
             [criteria EXCEPT !.min_risk_reward_ratio = 0]
      [] stage = "market_conditions" ->
             [criteria EXCEPT !.market_conditions = {}]
      [] stage = "daily_limit" -> [criteria EXCEPT !.max_signals_per_day = 0]
      [] OTHER -> criteria

\* config['quality_thresholds'] with the minimum quality at 0 when the
\* quality stage is the one to let every signal pass
ThresholdsOff(stage) ==
    IF stage = "advanced_quality" THEN [QualityThresholds EXCEPT !.poor = 0]
    ELSE QualityThresholds

\* The pipeline of filter_signals with one stage left out: every other
\* stage as filter_signals runs it
PipelineWithout(skipped, signals, criteria, market_data, heap, current_time) ==
    LET p0 == Start(signals, heap)
        p1 == IF skipped = "confidence" THEN p0
              ELSE FilterByConfidence(p0, criteria)
        p2 == IF skipped = "signal_type" THEN p1
              ELSE SignalTypeStage(p1, criteria)
        p3 == IF skipped = "position_size" THEN p2
              ELSE FilterByPositionSize(p2, criteria)
        p4 == IF skipped = "time_window" THEN p3
              ELSE TimeWindowStage(p3, criteria, current_time)
        p5 == IF skipped = "duplicates" THEN p4
              ELSE DuplicateStage(p4, criteria)
        p6 == IF skipped = "risk_reward" THEN p5
              ELSE RiskRewardStage(p5, criteria)
        p7 == IF skipped = "market_conditions" THEN p6
              ELSE MarketStage(p6, criteria, market_data)
        p8 == IF skipped = "daily_limit" THEN p7
              ELSE DailyLimitStage(p7, criteria)
    IN  IF skipped = "advanced_quality" THEN p8
        ELSE ApplyAdvancedQualityFilters(p8, market_data, current_time)

\* SignalFilter.filter_statistics as __init__ and reset_statistics set it
NoStatistics ==
    [total_processed |-> 0, total_filtered |-> 0,
     filter_reasons |-> EmptyDict, quality_distribution |-> EmptyDict]

\* _update_global_statistics; an empty input returns before it
UpdateGlobalStatistics(filter_statistics, statistics) ==
    [filter_statistics EXCEPT
        !.total_processed = @ + statistics.original_count,
        !.total_filtered = @ + statistics.filtered_count,
        !.filter_reasons =
            [r \in DOMAIN @
                   \cup {statistics.removed_signals[i].reason :
                            i \in 1..Len(statistics.removed_signals)} |->
                Get(@, r, 0)
                + Cardinality({i \in 1..Len(statistics.removed_signals) :
                                  statistics.removed_signals[i].reason = r})]]

\* ------------------------------------------------------------------------
\* The inputs of the filter
\* ------------------------------------------------------------------------

\* At most MaxSignals signals in one list handed to filter_signals
MaxSignals == 3

\* The caller hands at most MaxBatches lists of new signals to one filter,
\* and hands the list the last call returned back to it at most MaxRefilters
\* times
MaxBatches == 1

MaxRefilters == 1

\* The clock advances at most MaxTicks hours while the filter is in use
MaxTicks == 1

\* Values finer than to_dict keeps: ten-thousandths of confidence, tenths of
\* a cent
ConfFine(ten_thousandths) == ten_thousandths * (ConfScale \div 10000)

DollarsFine(mills) == mills * (MoneyScale \div 1000)

\* base_time of the signals (test_t422_simple.py), and the clock when the
\* filter is constructed, one second later
BaseTime == 30 * Hour

ClockStart == BaseTime + Second

\* The signals a caller has at hand, after the sample signals of the
\* repository's filter tests; the metadata field is the id of the signal's
\* metadata dict.  1: a confident buy at 150.00.  2: a weak buy.  3: a sell.
\* 4: a buy at 150.50 a quarter of an hour after the first (its duplicate).
\* 5: a buy at 151.506, 20 minutes and half a second after the first, whose
\* numbers have more decimals than to_dict keeps.
Batch ==
    <<NewSignal("buy", "enter", Conf(850), Dollars(15000), BaseTime,
                Dollars(14500), Dollars(16000), Conf(300), 1),
      NewSignal("buy", "enter", Conf(450), Dollars(15200),
                BaseTime - 10 * Minute,
                Dollars(14800), Dollars(15600), Conf(100), 2),
      NewSignal("sell", "enter", Conf(780), Dollars(15500),
                BaseTime - 5 * Minute,
                Dollars(15800), Dollars(15000), Conf(250), 3),
      NewSignal("buy", "enter", Conf(820), Dollars(15050),
                BaseTime + 15 * Minute,
                Dollars(14550), Dollars(15900), Conf(280), 4),
      NewSignal("buy", "enter", ConfFine(7777), DollarsFine(151506),
                BaseTime + 20 * Minute + 1,
                DollarsFine(148004), DollarsFine(158337), ConfFine(3556),
                5)>>

\* A metadata dict: the truth values of its technical_confirmations, and
\* the quality entries once the quality stage has written them
Metadata(technical_confirmations) ==
    [technical_confirmations |-> technical_confirmations, quality |-> None]

\* The metadata dicts of the signals of the batch, by id
InitialHeap ==
    <<Metadata(<<TRUE, TRUE, TRUE>>), Metadata(<<>>),
      Metadata(<<TRUE, FALSE, TRUE>>), Metadata(<<>>),
      Metadata(<<TRUE, TRUE, TRUE>>)>>

\* The signals of the batch with the given positions, in batch order
Ordered(S) ==
    [k \in 1..Cardinality(S) |->
        Batch[CHOOSE i \in S : Cardinality({j \in S : j < i}) = k - 1]]

\* The lists handed to filter_signals, the empty list among them
InputLists ==
    {Ordered(S) : S \in {T \in SUBSET (1..Len(Batch)) :
                            Cardinality(T) <= MaxSignals}}

\* The criteria of the repository's duplicate test (test_t422_simple.py)
TestCriteria == [FilterCriteria EXCEPT !.min_confidence = Conf(400)]

\* The same with two signals a day
CappedCriteria == [TestCriteria EXCEPT !.max_signals_per_day = 2]

\* The same with every optional criterion set
StrictCriteria ==
    [CappedCriteria EXCEPT !.signal_types = {"buy"},
                         !.max_position_size = Conf(300),
                         !.time_window_hours = 1,
                         !.min_risk_reward_ratio = 15,
                         !.market_conditions = {"normal"}]

\* The same without the duplicate removal
KeepDuplicatesCriteria == [TestCriteria EXCEPT !.remove_duplicates = FALSE]

CriteriaPool ==
    {DefaultCriteria, CappedCriteria, StrictCriteria, KeepDuplicatesCriteria}

\* market_data: none, a quiet market, a volatile one (thousandths)
QuietMarket ==
    [volatility |-> 20, volume_ratio |-> 1000, trend_strength |-> 0]

VolatileMarket == [QuietMarket EXCEPT !.volatility = 80]

MarketPool == {None, QuietMarket, VolatileMarket}

\* ------------------------------------------------------------------------
\* ConfidenceCalculator (confidence.py)
\* ------------------------------------------------------------------------

\* A number held in a dict; a field that holds None instead makes the
\* comparison or the arithmetic that reads it raise TypeError
Number(n) == [isNone |-> FALSE, value |-> n]

\* What a step of a computation gives: a value, or an exception
Returned(v) == [raised |-> FALSE, value |-> v]

Raised == [raised |-> TRUE, value |-> 0]

\* bool(v) of a dict or None
Falsy(v) == IF DOMAIN v = {} THEN TRUE ELSE v = None

\* sum(1 for pos in d.values() if pos == v)
CountValues(d, v) == Cardinality({k \in DOMAIN d : d[k] = v})

\* _get_default_config: weights in hundredths, RSI thresholds in points,
\* volume ratios in hundredths, proximities in tenths of a percent,
\* reward/risk ratios in tenths
ConfidenceConfig ==
    [weights |->
         [technical_indicators |-> 35, support_resistance |-> 25,
          market_environment |-> 20, risk_reward |-> 15,
          volume_confirmation |-> 5],
     technical_thresholds |->
         [rsi_oversold |-> 30, rsi_overbought |-> 70,
          rsi_extreme_oversold |-> 20, rsi_extreme_overbought |-> 80,
          volume_surge_threshold |-> 150, volume_strong_threshold |-> 200],
     sr_evaluation |->
         [min_touches |-> 2, strong_touches |-> 4,
          proximity_excellent |-> 5, proximity_good |-> 10,
          proximity_fair |-> 20],
     risk_reward |->
         [excellent_ratio |-> 30, good_ratio |-> 25,
          acceptable_ratio |-> 20, minimum_ratio |-> 15],
     confidence_levels |->
         [very_high |-> Conf(850), high |-> Conf(750), medium |-> Conf(650),
          low |-> Conf(500), very_low |-> Conf(350)]]

\* The base every component starts from ("confidence = 0.5")
BaseConfidence == Conf(500)

\* _evaluate_rsi_confirmation
EvaluateRsiConfirmation(signal_type, rsi_value, thresholds) ==
    IF rsi_value = None THEN Raised
    ELSE IF signal_type = "buy"
    THEN IF rsi_value.value <= thresholds.rsi_extreme_oversold
         THEN Returned(Conf(250))
         ELSE IF rsi_value.value <= thresholds.rsi_oversold
         THEN Returned(Conf(150))
         ELSE IF rsi_value.value <= 40 THEN Returned(Conf(50))
         ELSE Returned(0)
    ELSE IF rsi_value.value >= thresholds.rsi_extreme_overbought
         THEN Returned(Conf(250))
         ELSE IF rsi_value.value >= thresholds.rsi_overbought
         THEN Returned(Conf(150))
         ELSE IF rsi_value.value >= 60 THEN Returned(Conf(50))
         ELSE Returned(0)

\* _evaluate_macd_confirmation
EvaluateMacdConfirmation(signal_type, macd_data) ==
    LET signal_macd == Get(macd_data, "signal_type", "")
        cross_signal == Get(macd_data, "cross_signal", "")
        position == Get(macd_data, "position", "")
        histogram_trend == Get(macd_data, "histogram_trend", "")
    IN  IF signal_type = "buy"
        THEN IF signal_macd = "buy_signal" \/ cross_signal = "golden_cross"
             THEN Conf(200)
             ELSE IF position = "bullish_zone" /\ histogram_trend = "rising"
             THEN Conf(100)
             ELSE IF cross_signal = "golden_cross_soon" THEN Conf(50)
             ELSE 0
        ELSE IF signal_macd = "sell_signal" \/ cross_signal = "death_cross"
             THEN Conf(200)
             ELSE IF position = "bearish_zone" /\ histogram_trend = "falling"
             THEN Conf(100)
             ELSE IF cross_signal = "death_cross_soon" THEN Conf(50)
             ELSE 0

\* The steps of _evaluate_ma_confirmation on the count of the averages on
\* the signal's side
MaRatioScore(on_side, total_count) ==
    IF on_side * 10 >= 8 * total_count THEN Conf(150)
    ELSE IF on_side * 10 >= 6 * total_count THEN Conf(100)
    ELSE IF on_side * 10 >= 4 * total_count THEN Conf(50)
    ELSE 0

\* _evaluate_ma_confirmation
EvaluateMaConfirmation(signal_type, price_position) ==
    LET above_count == CountValues(price_position, "above")
        below_count == CountValues(price_position, "below")
    IN  IF above_count + below_count = 0 THEN 0
        ELSE IF signal_type = "buy"
        THEN MaRatioScore(above_count, above_count + below_count)
        ELSE MaRatioScore(below_count, above_count + below_count)

\* _evaluate_atr_confirmation
EvaluateAtrConfirmation(atr_data) ==
    LET volatility_level == Get(atr_data, "volatility_level", "")
    IN  (IF volatility_level = "medium" THEN Conf(50)
         ELSE IF volatility_level = "low" THEN Conf(20) ELSE 0)
        + (IF Get(atr_data, "atr_trend", "") = "stable" THEN Conf(30)
           ELSE 0)

\* A usable indicator entry: "if data and not data.get('error')"
Usable(data) == ~Falsy(data) /\ ~("error" \in DOMAIN data)

\* What the steps of a try block add to the component before the first
\* step that raises; the except clause keeps what was added so far
RECURSIVE AddedBeforeRaise(_)
AddedBeforeRaise(steps) ==
    IF steps = <<>> THEN 0
    ELSE IF Head(steps).raised THEN 0
    ELSE Head(steps).value + AddedBeforeRaise(Tail(steps))

\* Some step of a try block raises
AnyRaised(steps) == \E k \in 1..Len(steps) : steps[k].raised

\* The steps of the try block of _calculate_technical_confidence
TechnicalSteps(signal_type, technical_analysis, thresholds) ==
    LET indicators == Get(technical_analysis, "indicators", EmptyDict)
        rsi_data == Get(indicators, "rsi_14", EmptyDict)
        macd_data == Get(indicators, "macd", EmptyDict)
        price_position == Get(technical_analysis, "price_position",
                              EmptyDict)
        atr_data == Get(indicators, "atr", EmptyDict)
    IN  << IF Usable(rsi_data)
           THEN EvaluateRsiConfirmation(signal_type,
                    Get(rsi_data, "current_rsi", Number(50)), thresholds)
           ELSE Returned(0),
           IF Usable(macd_data)
           THEN Returned(EvaluateMacdConfirmation(signal_type, macd_data))
           ELSE Returned(0),
           IF ~Falsy(price_position)
           THEN Returned(EvaluateMaConfirmation(signal_type,
                                                price_position))
           ELSE Returned(0),
           IF Usable(atr_data)
           THEN Returned(EvaluateAtrConfirmation(atr_data))
           ELSE Returned(0) >>

\* _calculate_technical_confidence
CalculateTechnicalConfidence(signal_type, technical_analysis, cfg) ==
    Clamp01(BaseConfidence
            + AddedBeforeRaise(TechnicalSteps(signal_type,
                  technical_analysis, cfg.technical_thresholds)))

\* |level.price - current_price| of one level; TypeError on a price of
\* None
LevelDistance(level, current_price) ==
    IF level.price = None THEN Raised
    ELSE Returned(Abs(level.price.value - current_price))

\* min(levels, key=lambda x: abs(x['price'] - current_price)): the first
\* of the nearest levels
NearestLevel(levels, current_price) ==
    LET nearest == {i \in 1..Len(levels) :
                       \A j \in 1..Len(levels) :
                           LevelDistance(levels[i], current_price).value <=
                           LevelDistance(levels[j], current_price).value}
    IN  levels[CHOOSE i \in nearest : \A j \in nearest : i <= j]

\* _evaluate_level_quality
EvaluateLevelQuality(level, current_price, sr_config) ==
    LET touch_count == Get(level, "touch_count", Number(0))
        diff == Abs(level.price.value - current_price)
        strength_rating == Get(level, "strength_rating", "weak")
    IN  IF touch_count = None \/ current_price = 0 THEN Raised
        ELSE Returned(
              (IF touch_count.value >= sr_config.strong_touches
               THEN Conf(200)
               ELSE IF touch_count.value >= sr_config.min_touches
               THEN Conf(100) ELSE 0)
            + (IF diff * 1000 <= sr_config.proximity_excellent * current_price
               THEN Conf(150)
               ELSE IF diff * 1000 <= sr_config.proximity_good * current_price
               THEN Conf(100)
               ELSE IF diff * 1000 <= sr_config.proximity_fair * current_price
               THEN Conf(50) ELSE 0)
            + (IF strength_rating = "strong" THEN Conf(150)
               ELSE IF strength_rating = "medium" THEN Conf(100)
               ELSE IF strength_rating = "weak" THEN Conf(50) ELSE 0))

\* The step of the try block of _calculate_sr_confidence on the levels of
\* the signal's side
LevelStep(levels, current_price, sr_config) ==
    IF levels = <<>> THEN Returned(0)
    ELSE IF \E i \in 1..Len(levels) : levels[i].price = None THEN Raised
    ELSE EvaluateLevelQuality(NearestLevel(levels, current_price),
                              current_price, sr_config)

\* The steps of the try block of _calculate_sr_confidence
SrSteps(signal_type, current_price, support_resistance, sr_config) ==
    << LevelStep(IF signal_type = "buy"
                 THEN Get(support_resistance, "support_levels", <<>>)
                 ELSE Get(support_resistance, "resistance_levels", <<>>),
                 current_price, sr_config) >>

\* _calculate_sr_confidence
CalculateSrConfidence(signal_type, current_price, support_resistance, cfg) ==
    Clamp01(BaseConfidence
            + AddedBeforeRaise(SrSteps(signal_type, current_price,
                  support_resistance, cfg.sr_evaluation)))

\* _assess_market_trend: |above/total - 0.5| * 2 * 0.1
AssessMarketTrend(technical_analysis) ==
    LET price_position == Get(technical_analysis, "price_position",
                              EmptyDict)
        above_count == CountValues(price_position, "above")
        total_count == above_count + CountValues(price_position, "below")
    IN  IF Falsy(price_position) \/ total_count = 0 THEN 0
        ELSE (Abs(2 * above_count - total_count) * Conf(100))
                 \div total_count

\* _assess_volatility_environment
AssessVolatilityEnvironment(market_data) ==
    LET volatility_level == Get(market_data, "volatility_level", "unknown")
    IN  IF volatility_level = "medium" THEN Conf(50)
        ELSE IF volatility_level \in {"low", "high"} THEN Conf(20)
        ELSE 0

\* _assess_liquidity
AssessLiquidity(market_data) ==
    LET volume_ratio == Get(market_data, "volume_ratio", Number(100))
    IN  IF volume_ratio = None THEN Raised
        ELSE IF volume_ratio.value >= 150 THEN Returned(Conf(50))
        ELSE IF volume_ratio.value >= 120 THEN Returned(Conf(30))
        ELSE Returned(0)

\* The steps of the try block of _calculate_market_confidence
MarketSteps(market_data, technical_analysis) ==
    << Returned(AssessMarketTrend(technical_analysis)),
       Returned(AssessVolatilityEnvironment(market_data)),
       AssessLiquidity(market_data) >>

\* _calculate_market_confidence
CalculateMarketConfidence(signal_type, market_data, technical_analysis) ==
    Clamp01(BaseConfidence
            + AddedBeforeRaise(MarketSteps(market_data, technical_analysis)))

\* The ladder of _calculate_risk_reward_confidence on reward / risk
RatioScore(reward, risk, rr_config) ==
    IF reward * 10 >= rr_config.excellent_ratio * risk THEN Conf(1000)
    ELSE IF reward * 10 >= rr_config.good_ratio * risk THEN Conf(800)
    ELSE IF reward * 10 >= rr_config.acceptable_ratio * risk THEN Conf(600)
    ELSE IF reward * 10 >= rr_config.minimum_ratio * risk THEN Conf(400)
    ELSE Conf(200)

\* The try block of _calculate_risk_reward_confidence
RiskRewardStep(current_price, risk_levels, rr_config) ==
    LET stop_loss == Get(risk_levels, "stop_loss", Number(current_price))
        take_profit == Get(risk_levels, "take_profit", Number(current_price))
    IN  IF stop_loss = None \/ take_profit = None THEN Raised
        ELSE IF Abs(current_price - stop_loss.value) <= 0
        THEN Returned(Conf(500))
        ELSE Returned(RatioScore(Abs(take_profit.value - current_price),
                                 Abs(current_price - stop_loss.value),
                                 rr_config))

\* The risk/reward component as calculate_signal_confidence takes it:
\* _calculate_risk_reward_confidence "if risk_levels else 0.5", and 0.5
\* from its except clause
CalculateRiskRewardConfidence(current_price, risk_levels, cfg) ==
    IF Falsy(risk_levels) THEN Conf(500)
    ELSE IF RiskRewardStep(current_price, risk_levels,
                           cfg.risk_reward).raised
    THEN Conf(500)
    ELSE RiskRewardStep(current_price, risk_levels, cfg.risk_reward).value

\* _calculate_volume_confidence, which has no try block
CalculateVolumeConfidence(market_data, thresholds) ==
    LET volume_ratio == Get(market_data, "volume_ratio", Number(100))
    IN  IF volume_ratio = None THEN Raised
        ELSE IF volume_ratio.value >= thresholds.volume_strong_threshold
        THEN Returned(Conf(1000))
        ELSE IF volume_ratio.value >= thresholds.volume_surge_threshold
        THEN Returned(Conf(700))
        ELSE IF volume_ratio.value >= 120 THEN Returned(Conf(400))
        ELSE Returned(Conf(200))

\* _count_confirmations, for an RSI entry that can be read
CountConfirmations(technical_analysis) ==
    LET indicators == Get(technical_analysis, "indicators", EmptyDict)
        rsi_data == Get(indicators, "rsi_14", EmptyDict)
        current_rsi == Get(rsi_data, "current_rsi", Number(50))
        macd_data == Get(indicators, "macd", EmptyDict)
        price_position == Get(technical_analysis, "price_position",
                              EmptyDict)
        above_count == CountValues(price_position, "above")
        total_count == above_count + CountValues(price_position, "below")
    IN  (IF Usable(rsi_data)
            /\ (current_rsi.value <= 30 \/ current_rsi.value >= 70)
         THEN 1 ELSE 0)
        + (IF Usable(macd_data)
              /\ Get(macd_data, "signal_type", "")
                     \in {"buy_signal", "sell_signal"}
           THEN 1 ELSE 0)
        + (IF ~Falsy(price_position) /\ total_count > 0
              /\ (above_count * 10 >= 7 * total_count
                  \/ above_count * 10 <= 3 * total_count)
           THEN 1 ELSE 0)

\* _apply_confidence_adjustments: the two bonuses; it reads current_rsi
\* outside any try block
ApplyConfidenceAdjustments(base_confidence, signal_type, technical_analysis) ==
    LET indicators == Get(technical_analysis, "indicators", EmptyDict)
        rsi_data == Get(indicators, "rsi_14", EmptyDict)
        current_rsi == Get(rsi_data, "current_rsi", Number(50))
    IN  IF Usable(rsi_data) /\ current_rsi = None THEN Raised
        ELSE Returned(
              base_confidence
            + (IF Usable(rsi_data)
                  /\ \/ signal_type = "buy" /\ current_rsi.value <= 20
                     \/ signal_type = "sell" /\ current_rsi.value >= 80
               THEN Conf(100) ELSE 0)
            + (IF CountConfirmations(technical_analysis) >= 3
               THEN Conf(50) ELSE 0))

\* _get_confidence_level
GetConfidenceLevel(confidence, levels) ==
    IF confidence >= levels.very_high THEN "very_high"
    ELSE IF confidence >= levels.high THEN "high"
    ELSE IF confidence >= levels.medium THEN "medium"
    ELSE IF confidence >= levels.low THEN "low"
    ELSE "very_low"

\* _get_confidence_recommendation
GetConfidenceRecommendation(confidence) ==
    IF confidence >= Conf(850) THEN "strongly_recommended"
    ELSE IF confidence >= Conf(750) THEN "recommended"
    ELSE IF confidence >= Conf(650) THEN "cautious"
    ELSE IF confidence >= Conf(500) THEN "wait_and_see"
    ELSE "not_recommended"

\* _assess_confidence_risk
AssessConfidenceRisk(confidence) ==
    IF confidence >= Conf(800) THEN "low_risk"
    ELSE IF confidence >= Conf(650) THEN "medium_risk"
    ELSE IF confidence >= Conf(500) THEN "elevated_risk"
    ELSE "high_risk"

\* The five components in the order calculate_signal_confidence computes
\* them
ComponentNames ==
    <<"technical_indicators", "support_resistance", "market_environment",
      "risk_reward", "volume_confirmation">>

\* The weighted sum of step 6 of calculate_signal_confidence
WeightedSum(components, weights) ==
    ( components.technical_indicators * weights.technical_indicators
    + components.support_resistance * weights.support_resistance
    + components.market_environment * weights.market_environment
    + components.risk_reward * weights.risk_reward
    + components.volume_confirmation * weights.volume_confirmation )
        \div 100

\* _get_default_confidence_result
DefaultConfidenceResult(cfg) ==
    [overall_confidence |-> Conf(500),
     confidence_level |-> "medium",
     components |->
         [technical_indicators |-> Conf(500),
          support_resistance |-> Conf(500),
          market_environment |-> Conf(500),
          risk_reward |-> Conf(500),
          volume_confirmation |-> Conf(500)],
     weights_used |-> cfg.weights,
     recommendation |-> "wait_and_see",
     risk_assessment |-> "medium_risk",
     error |-> TRUE]

\* The report of step 8 of calculate_signal_confidence
ConfidenceAnalysis(components, adjusted, cfg) ==
    [overall_confidence |-> Clamp01(adjusted),
     confidence_level |-> GetConfidenceLevel(adjusted,
                                             cfg.confidence_levels),
     components |-> components,
     weights_used |-> cfg.weights,
     recommendation |-> GetConfidenceRecommendation(adjusted),
     risk_assessment |-> AssessConfidenceRisk(adjusted),
     error |-> FALSE]

\* Steps 6 to 8 of calculate_signal_confidence on the five components
Combine(components, signal_type, technical_analysis, cfg) ==
    LET adjusted == ApplyConfidenceAdjustments(
                        WeightedSum(components, cfg.weights), signal_type,
                        technical_analysis)
    IN  IF adjusted.raised THEN DefaultConfidenceResult(cfg)
        ELSE ConfidenceAnalysis(components, adjusted.value, cfg)

\* calculate_signal_confidence: an exception that leaves a component or
\* the adjustments is caught by the outer except clause, which returns the
\* default result
CalculateSignalConfidence(signal_type, current_price, technical_analysis, support_resistance, market_data, risk_levels, cfg) ==
    LET volume == CalculateVolumeConfidence(market_data,
                                            cfg.technical_thresholds)
    IN  IF volume.raised THEN DefaultConfidenceResult(cfg)
        ELSE Combine(
               [technical_indicators |->
                    CalculateTechnicalConfidence(signal_type,
                                                 technical_analysis, cfg),
                support_resistance |->
                    CalculateSrConfidence(signal_type, current_price,
                                          support_resistance, cfg),
                market_environment |->
                    CalculateMarketConfidence(signal_type, market_data,
                                              technical_analysis),
                risk_reward |->
                    CalculateRiskRewardConfidence(current_price,
                                                  risk_levels, cfg),
                volume_confirmation |-> volume.value],
               signal_type, technical_analysis, cfg)

\* ------------------------------------------------------------------------
\* SupportResistanceAnalyzer: the clustering of the local extrema
\*
\* Prices are in cents and strengths in hundredths of a percent, the two
\* decimals find_local_extrema rounds them to; the tolerance is in tenths
\* of a percent.  A bar's date is determined by its index and not kept.
\* ------------------------------------------------------------------------

\* An entry of extrema['highs'] or extrema['lows']
Extremum(index, price, strength) ==
    [index |-> index, price |-> price, strength |-> strength]

\* sum(p['price'] for p in cluster)
RECURSIVE PriceSum(_)
PriceSum(cluster) ==
    IF Len(cluster) = 0 THEN 0
    ELSE Head(cluster).price + PriceSum(Tail(cluster))

\* sum(p['strength'] for p in cluster)
RECURSIVE StrengthSum(_)
StrengthSum(cluster) ==
    IF Len(cluster) = 0 THEN 0
    ELSE Head(cluster).strength + StrengthSum(Tail(cluster))

\* A mutant of WithinTolerance: the price is compared with the first price
\* of the cluster, not with its running average
WithinTolerance_OfFirst(current_cluster, current_price, tolerance) ==
    Abs(current_price - current_cluster[1].price) * 1000
        <= tolerance * current_cluster[1].price

\* price_diff_pct <= tolerance, where price_diff_pct is the distance of the
\* price from the running average of the cluster, in percent of the average
WithinTolerance(current_cluster, current_price, tolerance) ==
    Abs(current_price * Len(current_cluster) - PriceSum(current_cluster))
            * 1000
        <= tolerance * PriceSum(current_cluster)

\* The loop over the sorted extrema: an extremum joins the current cluster
\* or closes it and starts the next; the last cluster is added at the end
RECURSIVE GrowClusters(_, _, _, _)
GrowClusters(sorted_extrema, clusters, current_cluster, tolerance) ==
    IF Len(sorted_extrema) = 0 THEN Append(clusters, current_cluster)
    ELSE IF WithinTolerance(current_cluster, Head(sorted_extrema).price,
                            tolerance)
    THEN GrowClusters(Tail(sorted_extrema), clusters,
                      Append(current_cluster, Head(sorted_extrema)),
                      tolerance)
    ELSE GrowClusters(Tail(sorted_extrema),
                      Append(clusters, current_cluster),
                      <<Head(sorted_extrema)>>, tolerance)

\* The rating of a cluster from its touches and the sum of their strengths:
\* the average strength is compared before it is rounded
ClusterRating(touch_count, strength_sum) ==
    IF touch_count >= 3 /\ strength_sum >= 300 * touch_count THEN "strong"
    ELSE IF touch_count >= 2 /\ strength_sum >= 200 * touch_count
    THEN "medium"
    ELSE "weak"

\* max(cluster, key=index): the first touch with the greatest index
LatestTouch(cluster) ==
    cluster[CHOOSE i \in 1..Len(cluster) :
               /\ \A j \in 1..Len(cluster) :
                     cluster[j].index <= cluster[i].index
               /\ \A j \in 1..(i - 1) :
                     cluster[j].index < cluster[i].index]

\* The level dict of one cluster
ClusterLevel(cluster, level_type) ==
    [price |-> RoundDiv(PriceSum(cluster), Len(cluster)),
     touch_count |-> Len(cluster),
     avg_strength |-> RoundDiv(StrengthSum(cluster), Len(cluster)),
     strength_rating |->
         ClusterRating(Len(cluster), StrengthSum(cluster)),
     level_type |-> level_type,
     latest_touch_index |-> LatestTouch(cluster).index,
     price_range |->
         [min |-> CHOOSE p \in {cluster[i].price : i \in 1..Len(cluster)} :
                     \A i \in 1..Len(cluster) : p <= cluster[i].price,
          max |-> CHOOSE p \in {cluster[i].price : i \in 1..Len(cluster)} :
                     \A i \in 1..Len(cluster) : p >= cluster[i].price],
     individual_touches |-> cluster]

\* levels.sort(key=(touch_count, avg_strength), reverse=True): a stable
\* sort, the greater key first
ByTouchesDescending(levels) ==
    StableSort(levels,
               [i \in 1..Len(levels) |->
                   0 - (levels[i].touch_count * 100000
                            + levels[i].avg_strength)])

\* The clusters of a list of extrema, in ascending price
Clusters(extrema_list, tolerance) ==
    IF Len(extrema_list) = 0 THEN <<>>
    ELSE GrowClusters(
             Tail(StableSort(extrema_list,
                     [i \in 1..Len(extrema_list) |->
                         extrema_list[i].price])),
             <<>>,
             <<Head(StableSort(extrema_list,
                     [i \in 1..Len(extrema_list) |->
                         extrema_list[i].price]))>>,
             tolerance)

\* The levels of a sequence of clusters
LevelsOf(clusters, level_type) ==
    [k \in 1..Len(clusters) |-> ClusterLevel(clusters[k], level_type)]

\* _cluster_price_levels
ClusterPriceLevels(extrema_list, tolerance, level_type) ==
    ByTouchesDescending(
        LevelsOf(Clusters(extrema_list, tolerance), level_type))

\* max(all_prices) of a non-empty list of extrema
MaxPrice(extrema_list) ==
    CHOOSE p \in {extrema_list[i].price : i \in 1..Len(extrema_list)} :
        \A i \in 1..Len(extrema_list) : p >= extrema_list[i].price

\* The elements of a list
Elements(seq) == {seq[i] : i \in 1..Len(seq)}

\* The result dict of identify_support_resistance_levels from the two
\* lists of levels
LevelsResult(highs, lows, tolerance, resistance_levels, support_levels) ==
    [resistance_levels |-> resistance_levels,
     support_levels |-> support_levels,
     total_resistance |-> Len(resistance_levels),
     total_support |-> Len(support_levels),
     current_position |->
         IF Len(highs) + Len(lows) = 0 THEN None
         ELSE AnalyzeCurrentPosition(MaxPrice(highs \o lows),
                                     Elements(resistance_levels),
                                     Elements(support_levels)),
     analysis_params |->
         [tolerance |-> tolerance,
          source_highs |-> Len(highs),
          source_lows |-> Len(lows)]]

\* identify_support_resistance_levels on the extrema of find_local_extrema
IdentifySupportResistanceLevels(highs, lows, tolerance) ==
    LevelsResult(highs, lows, tolerance,
                 ClusterPriceLevels(highs, tolerance, "resistance"),
                 ClusterPriceLevels(lows, tolerance, "support"))

\* ------------------------------------------------------------------------
\* TechnicalIndicators.calculate_rsi
\*
\* Prices are whole numbers, positions in a series count from 1, and an
\* RSI is in hundredths of a point.  A smoothed average at position i is
\* kept exactly, as its numerator over period^(i - period + 1).
\* ------------------------------------------------------------------------

\* A float that is not a number, and one that is
NaN == [isNaN |-> TRUE, value |-> 0]

Float(v) == [isNaN |-> FALSE, value |-> v]

RECURSIVE Power(_, _)
Power(base, exponent) ==
    IF exponent = 0 THEN 1 ELSE base * Power(base, exponent - 1)

\* gains = delta.where(delta > 0, 0): the first delta is NaN and gives 0
Gains(prices) ==
    [i \in 1..Len(prices) |->
        IF i > 1 /\ prices[i] - prices[i - 1] > 0
        THEN prices[i] - prices[i - 1] ELSE 0]

\* losses = -delta.where(delta < 0, 0)
Losses(prices) ==
    [i \in 1..Len(prices) |->
        IF i > 1 /\ prices[i] - prices[i - 1] < 0
        THEN prices[i - 1] - prices[i] ELSE 0]

RECURSIVE WindowSum(_, _)
WindowSum(changes, i) ==
    IF i = 0 THEN 0 ELSE changes[i] + WindowSum(changes, i - 1)

\* The numerator of the smoothed average at position i >= period: the
\* rolling mean of the first period values, then Wilder's smoothing
RECURSIVE Smoothed(_, _, _)
Smoothed(changes, period, i) ==
    IF i = period THEN WindowSum(changes, period)
    ELSE Smoothed(changes, period, i - 1) * (period - 1)
             + changes[i] * Power(period, i - period)

\* rsi = 100 - (100 / (1 + rs)) with rs = avg_gains / avg_losses in float
\* arithmetic: 0/0 is NaN and stays NaN, x/0 is infinite and gives 100
RsiOfAverages(avg_gain, avg_loss) ==
    IF avg_loss = 0
    THEN IF avg_gain = 0 THEN NaN ELSE Float(10000)
    ELSE Float(RoundDiv(10000 * avg_gain, avg_gain + avg_loss))

\* The RSI at a position before fillna: before the first full window the
\* averages are NaN
RawRsi(prices, period, i) ==
    IF i < period THEN NaN
    ELSE RsiOfAverages(Smoothed(Gains(prices), period, i),
                       Smoothed(Losses(prices), period, i))

\* rsi.fillna(50)
FillNa(rsi, fill) == IF rsi.isNaN THEN Float(fill) ELSE rsi

\* calculate_rsi(prices, period)
CalculateRsi(prices, period) ==
    IF Len(prices) < period + 1 THEN Raised
    ELSE IF period <= 0 THEN Raised
    ELSE Returned([i \in 1..Len(prices) |->
                      FillNa(RawRsi(prices, period, i), 5000)])

\* ------------------------------------------------------------------------
\* DataScheduler and MarketTimeChecker
\*
\* The clock counts half-seconds from a Monday 00:00 of a week without a
\* change of daylight saving; datetime.now() is naive and is_market_open
\* reads it as UTC, five hours ahead of New York.  The files written by
\* _save_price_data are not kept: its failures are caught and it changes
\* nothing of the scheduler.
\* ------------------------------------------------------------------------

\* now.date(), now.hour and now.minute of a clock reading
DateOf(clock) == clock \div Day

HourOf(clock) == (clock % Day) \div Hour

MinuteOf(clock) == (clock % Hour) \div Minute

\* MarketTimeChecker.is_market_open: a weekday in New York, from 09:30 to
\* 16:00 inclusive.  Before 05:00 of the Monday the clock starts at, it is
\* Sunday in New York.
IsMarketOpen(clock) ==
    /\ clock >= 5 * Hour
    /\ DateOf(clock - 5 * Hour) % 7 < 5
    /\ 9 * Hour + 30 * Minute <= (clock - 5 * Hour) % Day
    /\ (clock - 5 * Hour) % Day <= 16 * Hour

\* DataScheduler.__init__ with config['scheduler'] = scheduler_config, at
\* a reading of the clock
DataScheduler(scheduler_config, clock) ==
    [max_daily_calls |-> scheduler_config.max_daily_calls,
     max_hourly_calls |-> scheduler_config.max_hourly_calls,
     max_minute_calls |-> scheduler_config.max_minute_calls,
     watchlist |-> scheduler_config.watchlist,
     daily_calls |-> 0,
     hourly_calls |-> 0,
     minute_calls |-> 0,
     last_reset_date |-> DateOf(clock),
     last_reset_hour |-> HourOf(clock),
     last_reset_minute |-> MinuteOf(clock),
     call_history |-> <<>>]

\* The defaults of scheduler_config.get
DefaultSchedulerConfig ==
    [max_daily_calls |-> 7000, max_hourly_calls |-> 300,
     max_minute_calls |-> 50, watchlist |-> <<"AMD", "PONY">>]

\* _reset_counters_if_needed
ResetCountersIfNeeded(s, clock) ==
    IF DateOf(clock) # s.last_reset_date
    THEN [s EXCEPT !.daily_calls = 0, !.hourly_calls = 0,
                   !.minute_calls = 0,
                   !.last_reset_date = DateOf(clock),
                   !.last_reset_hour = HourOf(clock),
                   !.last_reset_minute = MinuteOf(clock),
                   !.call_history = <<>>]
    ELSE IF HourOf(clock) # s.last_reset_hour
    THEN [s EXCEPT !.hourly_calls = 0, !.minute_calls = 0,
                   !.last_reset_hour = HourOf(clock),
                   !.last_reset_minute = MinuteOf(clock)]
    ELSE IF MinuteOf(clock) # s.last_reset_minute
    THEN [s EXCEPT !.minute_calls = 0,
                   !.last_reset_minute = MinuteOf(clock)]
    ELSE s

\* The body of the loop of _fetch_watchlist_data after a price was
\* fetched and saved: the three counters and the history
CountCall(s, symbol, clock) ==
    [s EXCEPT !.daily_calls = @ + 1, !.hourly_calls = @ + 1,
              !.minute_calls = @ + 1,
              !.call_history =
                  Append(@, [symbol |-> symbol, timestamp |-> clock,
                             success |-> TRUE])]

\* The body of the loop after a DataFetchError
CountFailure(s, symbol, clock) ==
    [s EXCEPT !.call_history =
                  Append(@, [symbol |-> symbol, timestamp |-> clock,
                             success |-> FALSE])]

\* _fetch_watchlist_data from the k-th symbol on: outcomes[k] is what
\* get_current_price does for it ("ok", "fetch_error" for a DataFetchError,
\* "error" for any other exception, which leaves the loop); a fetched
\* price is followed by a sleep of a second; the loop stops when the daily
\* limit is reached.  The scheduler and the clock at the end.
RECURSIVE FetchWatchlistData(_, _, _, _)
FetchWatchlistData(s, clock, k, outcomes) ==
    IF k > Len(s.watchlist) THEN [scheduler |-> s, clock |-> clock]
    ELSE IF outcomes[k] = "error" THEN [scheduler |-> s, clock |-> clock]
    ELSE IF outcomes[k] = "ok"
    THEN IF s.daily_calls + 1 >= s.max_daily_calls
         THEN [scheduler |-> CountCall(s, s.watchlist[k], clock),
               clock |-> clock + Second]
         ELSE FetchWatchlistData(CountCall(s, s.watchlist[k], clock),
                                 clock + Second, k + 1, outcomes)
    ELSE IF s.daily_calls >= s.max_daily_calls
         THEN [scheduler |-> CountFailure(s, s.watchlist[k], clock),
               clock |-> clock]
         ELSE FetchWatchlistData(CountFailure(s, s.watchlist[k], clock),
                                 clock, k + 1, outcomes)

\* _scheduled_fetch after the counters were reset: nothing outside the
\* market hours or with a counter at its limit
FetchIfAllowed(s, clock, outcomes) ==
    IF ~IsMarketOpen(clock) THEN [scheduler |-> s, clock |-> clock]
    ELSE IF s.daily_calls >= s.max_daily_calls
    THEN [scheduler |-> s, clock |-> clock]
    ELSE IF s.hourly_calls >= s.max_hourly_calls
    THEN [scheduler |-> s, clock |-> clock]
    ELSE IF s.minute_calls >= s.max_minute_calls
    THEN [scheduler |-> s, clock |-> clock]
    ELSE FetchWatchlistData(s, clock, 1, outcomes)

\* _scheduled_fetch
ScheduledFetchResult(s, clock, outcomes) ==
    FetchIfAllowed(ResetCountersIfNeeded(s, clock), clock, outcomes)

\* list.remove of a symbol that is in the list: its first occurrence
WithoutSymbol(watchlist, symbol) ==
    LET at == CHOOSE i \in 1..Len(watchlist) :
                 /\ watchlist[i] = symbol
                 /\ \A j \in 1..(i - 1) : watchlist[j] # symbol
    IN  SubSeq(watchlist, 1, at - 1)
            \o SubSeq(watchlist, at + 1, Len(watchlist))

\* ------------------------------------------------------------------------
\* StockDataFetcher: the data sources
\*
\* source_failures is a function on the configured sources; a source
\* without a key has the count 0, as source_failures.get(source, 0) reads
\* it.
\* ------------------------------------------------------------------------

\* self.max_failures
MaxFailures == 3

\* StockDataFetcher.__init__ with the sources of the config
StockDataFetcher(primary_source, backup_sources) ==
    [primary_source |-> primary_source,
     backup_sources |-> backup_sources,
     current_source |-> primary_source,
     source_failures |->
         [source \in {primary_source} \cup Elements(backup_sources) |-> 0],
     max_failures |-> MaxFailures]

\* _should_use_backup
ShouldUseBackup(f, source) ==
    f.source_failures[source] >= f.max_failures

\* The first backup source that has not failed too often, in a list
FirstUsable(f) ==
    LET usable == {i \in 1..Len(f.backup_sources) :
                      ~ShouldUseBackup(f, f.backup_sources[i])}
    IN  IF usable = {} THEN None
        ELSE [isNone |-> FALSE,
              value |-> f.backup_sources[CHOOSE i \in usable :
                                            \A j \in usable : i <= j]]

\* The failure is counted
WithFailure(f, source) ==
    [f EXCEPT !.source_failures[source] = @ + 1]

\* The switch of _record_source_failure once the failure is counted
SwitchIfNeeded(f, source) ==
    IF source = f.primary_source /\ ShouldUseBackup(f, source)
          /\ ~FirstUsable(f).isNone
    THEN [f EXCEPT !.current_source = FirstUsable(f).value]
    ELSE f

\* _record_source_failure
RecordSourceFailure(f, source) ==
    SwitchIfNeeded(WithFailure(f, source), source)

\* _record_source_success
RecordSourceSuccess(f, source) ==
    [f EXCEPT !.source_failures[source] = 0]

\* The loop over the backup sources from the k-th on; backup_ok[k] says
\* whether the call of the k-th backup source succeeds
RECURSIVE TryBackups(_, _, _)
TryBackups(f, k, backup_ok) ==
    IF k > Len(f.backup_sources)
    THEN [fetcher |-> f, raised |-> TRUE, source |-> "none"]
    ELSE IF ShouldUseBackup(f, f.backup_sources[k])
    THEN TryBackups(f, k + 1, backup_ok)
    ELSE IF backup_ok[k]
    THEN [fetcher |->
              [RecordSourceSuccess(f, f.backup_sources[k])
                  EXCEPT !.current_source = f.backup_sources[k]],
          raised |-> FALSE, source |-> f.backup_sources[k]]
    ELSE TryBackups(RecordSourceFailure(f, f.backup_sources[k]), k + 1,
                    backup_ok)

\* The except branch of _get_data_with_fallback once the failure of the
\* current source is recorded
AfterFailure(f, backup_ok) ==
    IF f.current_source = f.primary_source THEN TryBackups(f, 1, backup_ok)
    ELSE [fetcher |-> f, raised |-> TRUE, source |-> "none"]

\* _get_data_with_fallback: current_ok says whether the call of the
\* current source succeeds.  The fetcher after the call, whether
\* DataFetchError was raised, and the source of the data returned.
GetDataWithFallback(f, current_ok, backup_ok) ==
    IF current_ok
    THEN [fetcher |-> RecordSourceSuccess(f, f.current_source),
          raised |-> FALSE, source |-> f.current_source]
    ELSE AfterFailure(RecordSourceFailure(f, f.current_source), backup_ok)

\* reset_sources
ResetSourcesResult(f) ==
    [f EXCEPT !.current_source = f.primary_source,
              !.source_failures = [source \in DOMAIN @ |-> 0]]

\* ------------------------------------------------------------------------
\* State
\* ------------------------------------------------------------------------

VARIABLES
    config,             \* SupportResistanceStrategy.config
    signals_generated,  \* BaseStrategy.signals_generated
    last_signal,        \* BaseStrategy.last_signal
    run,                \* the last call of analyze: its frame and its result
    now,                \* the wall clock (datetime.now())
    criteria,           \* the FilterCriteria the caller filters with
    market_data,        \* the market data the caller filters with
    heap,               \* the metadata dicts of the caller's signals, by id
    call,               \* the last call of filter_signals
    filter_statistics,  \* SignalFilter.filter_statistics
    history,            \* the calls of filter_signals and the resets so far
    other_statistics,   \* filter_statistics of a second SignalFilter
    other_history,      \* the calls and the resets of the second filter
    scored,             \* the last call of calculate_signal_confidence
    identified,         \* the last call of identify_support_resistance_levels
    rsi_run,            \* the last call of calculate_rsi
    scheduler,          \* the fields of a DataScheduler
    scheduler_steps,    \* the scheduled runs and the waits so far
    fetcher,            \* the fields of a StockDataFetcher
    fetched             \* the last call of _get_data_with_fallback

strategyVars == <<config, signals_generated, last_signal, run>>

otherVars == <<other_statistics, other_history>>

analyzerVars == <<identified, rsi_run>>

dataVars == <<scheduler, scheduler_steps, fetcher, fetched>>

filterVars ==
    <<criteria, market_data, heap, call, filter_statistics, history,
      other_statistics, other_history>>

vars ==
    <<config, signals_generated, last_signal, run, now, criteria,
      market_data, heap, call, filter_statistics, history,
      other_statistics, other_history, scored, identified,
      rsi_run, scheduler, scheduler_steps, fetcher, fetched>>

IdleRun == [called |-> FALSE, df |-> NoFrame, signals |-> <<>>]

\* No call of filter_signals yet
IdleCall ==
    [called |-> FALSE, refilter |-> FALSE, input |-> <<>>,
     input_after |-> <<>>, heap_before |-> InitialHeap, output |-> <<>>,
     statistics |-> EmptyFilterResult(InitialHeap).statistics,
     previous |-> <<>>, at |-> ClockStart, stage_off |-> "none"]

\* A SignalFilter just constructed (SignalFilter.__init__), with the
\* caller's signals untouched
FilterIdle ==
    /\ heap = InitialHeap
    /\ call = IdleCall
    /\ filter_statistics = NoStatistics
    /\ history = <<>>
    /\ other_statistics = NoStatistics
    /\ other_history = <<>>

\* No call of calculate_signal_confidence yet
IdleScore ==
    [called |-> FALSE, signal_type |-> "buy", current_price |-> 0,
     technical_analysis |-> EmptyDict, support_resistance |-> EmptyDict,
     market_data |-> EmptyDict, risk_levels |-> None,
     result |-> DefaultConfidenceResult(ConfidenceConfig)]

\* A ConfidenceCalculator just constructed
ScorerIdle == scored = IdleScore

\* No call of identify_support_resistance_levels yet
IdleIdentified ==
    [called |-> FALSE, highs |-> <<>>, lows |-> <<>>, tolerance |-> 0,
     result |-> IdentifySupportResistanceLevels(<<>>, <<>>, 0)]

\* No call of calculate_rsi yet
IdleRsi == [called |-> FALSE, prices |-> <<>>, period |-> 0, result |-> Raised]

\* A SupportResistanceAnalyzer and a TechnicalIndicators just constructed:
\* they keep nothing
AnalyzerIdle == identified = IdleIdentified /\ rsi_run = IdleRsi

\* No call of _get_data_with_fallback yet
IdleFetch ==
    [called |-> FALSE, current_ok |-> FALSE, backup_ok |-> <<>>,
     before |-> StockDataFetcher("yfinance", <<"mock">>),
     raised |-> FALSE, source |-> "none"]

\* A DataScheduler and a StockDataFetcher just constructed from an empty
\* config
DataIdle ==
    /\ scheduler = DataScheduler(DefaultSchedulerConfig, ClockStart)
    /\ scheduler_steps = 0
    /\ fetcher = StockDataFetcher("yfinance", <<"mock">>)
    /\ fetched = IdleFetch

\* BaseStrategy.__init__ through SupportResistanceStrategy.__init__
StrategyIdle ==
    /\ signals_generated = <<>>
    /\ last_signal = None
    /\ run = IdleRun

StrategyInit ==
    /\ config \in Configs
    /\ StrategyIdle
    /\ now = 0
    /\ criteria = DefaultCriteria
    /\ market_data = None
    /\ FilterIdle
    /\ ScorerIdle
    /\ AnalyzerIdle
    /\ DataIdle

\* One call of analyze on a data frame; a returned signal is recorded by
\* _add_signal
AnalyzeRun ==
    /\ Len(signals_generated) < MaxHistory
    /\ \E df \in DataFrames :
          \E signals \in {Analyze(df, config, now)} :
              /\ run' = [called |-> TRUE, df |-> df, signals |-> signals]
              /\ IF signals # <<>>
                 THEN /\ signals_generated' =
                             Append(signals_generated, signals[1])
                      /\ last_signal' = signals[1]
                 ELSE UNCHANGED <<signals_generated, last_signal>>
    /\ UNCHANGED <<config, scored, analyzerVars, dataVars, now, filterVars>>

\* BaseStrategy.clear_signals
ClearSignals ==
    /\ signals_generated # <<>>
    /\ signals_generated' = <<>>
    /\ last_signal' = None
    /\ UNCHANGED <<config, scored, analyzerVars, dataVars, run, now,
                   filterVars>>

StrategyNext == AnalyzeRun \/ ClearSignals

StrategySpec == StrategyInit /\ [][StrategyNext]_vars

\* ------------------------------------------------------------------------
\* The filter as a state machine
\* ------------------------------------------------------------------------

\* The caller has a strategy at rest, a FilterCriteria and market data it
\* keeps using, and a filter just constructed
FilterInit ==
    /\ config = DefaultConfig
    /\ StrategyIdle
    /\ now = ClockStart
    /\ criteria \in CriteriaPool
    /\ market_data \in MarketPool
    /\ FilterIdle
    /\ ScorerIdle
    /\ AnalyzerIdle
    /\ DataIdle

\* The events of one kind in the history
CallCount(kind) ==
    Cardinality({i \in 1..Len(history) : history[i].kind = kind})

\* One call of filter_signals(signals, criteria, market_data) whose signals
\* have the metadata dicts of heap_before: the result is returned, the
\* metadata is as the quality stage leaves it, the statistics are updated
\* (not for an empty list, which returns before)
Submit(signals, heap_before, previous, refilter) ==
    \E result \in {FilterSignalsResult(signals, criteria, market_data,
                                       heap_before, now)} :
        /\ call' = [called |-> TRUE, refilter |-> refilter,
                    input |-> signals, input_after |-> signals,
                    heap_before |-> heap_before,
                    output |-> result.filtered_signals,
                    statistics |-> result.statistics,
                    previous |-> previous, at |-> now,
                    stage_off |-> "none"]
        /\ heap' = result.heap
        /\ filter_statistics' =
               IF Len(signals) = 0 THEN filter_statistics
               ELSE UpdateGlobalStatistics(filter_statistics,
                                           result.statistics)
        /\ history' =
               Append(history,
                      [kind |-> IF refilter THEN "refilter" ELSE "batch",
                       input_size |-> Len(signals),
                       output_size |-> Len(result.filtered_signals)])
        /\ UNCHANGED <<strategyVars, scored, analyzerVars, dataVars, now,
                       criteria, market_data, otherVars>>

\* filter_signals on a list of new signals
FilterSignals ==
    /\ CallCount("batch") < MaxBatches
    /\ \E signals \in InputLists : Submit(signals, InitialHeap, <<>>, FALSE)

\* filter_signals on the list the last call returned
Refilter ==
    /\ call.called
    /\ CallCount("refilter") < MaxRefilters
    /\ Submit(call.output, heap, call.output, TRUE)

\* SignalFilter.reset_statistics
ResetStatistics ==
    /\ history # <<>>
    /\ history[Len(history)].kind # "reset"
    /\ filter_statistics' = NoStatistics
    /\ history' = Append(history, [kind |-> "reset", input_size |-> 0,
                                   output_size |-> 0])
    /\ UNCHANGED <<strategyVars, scored, analyzerVars, dataVars, now, criteria,
                   market_data, heap, call, otherVars>>

\* An hour passes
Tick ==
    /\ now < ClockStart + MaxTicks * Hour
    /\ now' = now + Hour
    /\ UNCHANGED <<strategyVars, scored, analyzerVars, dataVars, filterVars>>

FilterNext == FilterSignals \/ Refilter \/ ResetStatistics \/ Tick

FilterSpec == FilterInit /\ [][FilterNext]_vars

\* ------------------------------------------------------------------------
\* Two filters side by side
\* ------------------------------------------------------------------------

\* The caller makes at most MaxInstanceCalls calls of filter_signals, on the
\* one filter or the other
MaxInstanceCalls == 2

\* A caller with two SignalFilter instances and one set of criteria
InstancesInit ==
    /\ config = DefaultConfig
    /\ StrategyIdle
    /\ now = ClockStart
    /\ criteria = CappedCriteria
    /\ market_data = None
    /\ FilterIdle
    /\ ScorerIdle
    /\ AnalyzerIdle
    /\ DataIdle

\* The calls of filter_signals among the events of a filter
CallsIn(h) == Cardinality({i \in 1..Len(h) : h[i].kind = "batch"})

\* filter_statistics after a call: _update_global_statistics, which an
\* empty input returns before
Counted(statistics, signals, result) ==
    IF Len(signals) = 0 THEN statistics
    ELSE UpdateGlobalStatistics(statistics, result.statistics)

\* The events of a filter with a call added
Logged(h, signals, result) ==
    Append(h, [kind |-> "batch", input_size |-> Len(signals),
               output_size |-> Len(result.filtered_signals)])

\* The events of a filter with a reset added
LoggedReset(h) ==
    Append(h, [kind |-> "reset", input_size |-> 0, output_size |-> 0])

\* reset_statistics is worth modelling once between calls
Resettable(h) == IF h = <<>> THEN TRUE ELSE h[Len(h)].kind # "reset"

\* A mutant of StatisticsOfOther: the second filter counts into the
\* accumulator of the first
StatisticsOfOther_Shared(own, first) == first

\* The accumulator _update_global_statistics of the second filter adds to:
\* self.filter_statistics, its own
StatisticsOfOther(own, first) == own

\* filter_signals of the first filter on a list of new signals; the
\* signals and the result are not followed here
FilterOnFirst ==
    /\ CallsIn(history) + CallsIn(other_history) < MaxInstanceCalls
    /\ \E signals \in InputLists :
       \E result \in {FilterSignalsResult(signals, criteria, market_data,
                                          InitialHeap, now)} :
          /\ filter_statistics' = Counted(filter_statistics, signals, result)
          /\ history' = Logged(history, signals, result)
    /\ UNCHANGED <<strategyVars, scored, analyzerVars, dataVars, now, criteria,
                   market_data, heap, call, otherVars>>

\* filter_signals of the second filter on a list of new signals
FilterOnOther ==
    /\ CallsIn(history) + CallsIn(other_history) < MaxInstanceCalls
    /\ \E signals \in InputLists :
       \E result \in {FilterSignalsResult(signals, criteria, market_data,
                                          InitialHeap, now)} :
          /\ other_statistics' =
                 Counted(StatisticsOfOther(other_statistics,
                                           filter_statistics),
                         signals, result)
          /\ other_history' = Logged(other_history, signals, result)
    /\ UNCHANGED <<strategyVars, scored, analyzerVars, dataVars, now, criteria,
                   market_data, heap, call, filter_statistics, history>>

\* reset_statistics of the first filter
ResetFirst ==
    /\ Resettable(history)
    /\ filter_statistics' = NoStatistics
    /\ history' = LoggedReset(history)
    /\ UNCHANGED <<strategyVars, scored, analyzerVars, dataVars, now, criteria,
                   market_data, heap, call, otherVars>>

\* reset_statistics of the second filter
ResetOther ==
    /\ Resettable(other_history)
    /\ other_statistics' = NoStatistics
    /\ other_history' = LoggedReset(other_history)
    /\ UNCHANGED <<strategyVars, scored, analyzerVars, dataVars, now, criteria,
                   market_data, heap, call, filter_statistics, history>>

InstancesNext == FilterOnFirst \/ FilterOnOther \/ ResetFirst \/ ResetOther

InstancesSpec == InstancesInit /\ [][InstancesNext]_vars

\* ------------------------------------------------------------------------
\* The filter with one stage switched off
\* ------------------------------------------------------------------------

\* The first call of filter_signals on a filter whose caller has put the
\* setting of one stage at its pass-all value (the criteria of the call, or
\* the quality thresholds of the filter's configuration)
FilterWithStageOff ==
    /\ ~call.called
    /\ \E signals \in InputLists \ {<<>>} :
       \E k \in 1..Len(StageOrder) :
       \E result \in {FilterSignalsUnder(signals,
                                         StageOff(criteria, StageOrder[k]),
                                         market_data, InitialHeap, now,
                                         ThresholdsOff(StageOrder[k]))} :
          /\ call' = [called |-> TRUE, refilter |-> FALSE,
                      input |-> signals, input_after |-> signals,
                      heap_before |-> InitialHeap,
                      output |-> result.filtered_signals,
                      statistics |-> result.statistics,
                      previous |-> <<>>, at |-> now,
                      stage_off |-> StageOrder[k]]
          /\ heap' = result.heap
          /\ filter_statistics' =
                 UpdateGlobalStatistics(filter_statistics, result.statistics)
          /\ history' = Append(history,
                               [kind |-> "batch",
                                input_size |-> Len(signals),
                                output_size |-> Len(result.filtered_signals)])
          /\ UNCHANGED <<strategyVars, scored, analyzerVars, dataVars, now,
                         criteria, market_data, otherVars>>

ToggleNext == FilterWithStageOff \/ Tick

ToggleSpec == FilterInit /\ [][ToggleNext]_vars

\* ------------------------------------------------------------------------
\* The confidence calculator as a state machine
\* ------------------------------------------------------------------------

\* The price every scored signal is at
ScoredPrice == Dollars(10000)

\* indicators['rsi_14'] of the callers: no entry, an entry marked as
\* failed, a deeply oversold, a middling and a deeply overbought reading,
\* and an entry whose current_rsi is None
RsiEntries ==
    {EmptyDict, [error |-> "insufficient data"],
     [current_rsi |-> Number(18)], [current_rsi |-> Number(50)],
     [current_rsi |-> Number(85)], [current_rsi |-> None]}

\* indicators['macd'] of the callers
MacdEntries ==
    {EmptyDict,
     [signal_type |-> "buy_signal", cross_signal |-> "golden_cross",
      position |-> "bullish_zone", histogram_trend |-> "rising"]}

\* indicators['atr'] of the callers
AtrEntries == {EmptyDict, [volatility_level |-> "medium", atr_trend |-> "stable"]}

\* technical_analysis['price_position'] of the callers
PricePositions ==
    {EmptyDict,
     [ma_5 |-> "above", ma_20 |-> "above", ma_50 |-> "above"],
     [ma_5 |-> "below", ma_20 |-> "above", ma_50 |-> "below"]}

\* The technical_analysis dicts of the callers, the empty one included
TechnicalAnalyses ==
    {EmptyDict} \cup
    {[indicators |-> [rsi_14 |-> rsi_data, macd |-> macd_data,
                      atr |-> atr_data],
      price_position |-> price_position] :
         rsi_data \in RsiEntries, macd_data \in MacdEntries, atr_data \in AtrEntries,
         price_position \in PricePositions}

\* A level as the analyzer reports it
ScoredLevel(price, touch_count, strength_rating) ==
    [price |-> price, touch_count |-> Number(touch_count),
     strength_rating |-> strength_rating]

\* The support_resistance dicts of the callers: none, a strong support
\* 0.4% below the price with a medium resistance 1.5% above it, and levels
\* whose price is None
SupportResistances ==
    {EmptyDict,
     [support_levels |->
          <<ScoredLevel(Number(Dollars(9960)), 4, "strong"),
            ScoredLevel(Number(Dollars(9500)), 2, "weak")>>,
      resistance_levels |->
          <<ScoredLevel(Number(Dollars(10150)), 2, "medium")>>],
     [support_levels |-> <<ScoredLevel(None, 2, "weak")>>,
      resistance_levels |-> <<ScoredLevel(None, 2, "weak")>>]}

\* The market_data dicts of the callers: none, a surge and a strong volume,
\* and a volume ratio of None
MarketDatas ==
    {EmptyDict,
     [volatility_level |-> "medium", volume_ratio |-> Number(180)],
     [volatility_level |-> "high", volume_ratio |-> Number(250)],
     [volatility_level |-> "medium", volume_ratio |-> None]}

\* The risk_levels of the callers: None, a reward of three times the risk,
\* a reward equal to the risk, and a stop_loss of None
RiskLevels ==
    {None,
     [stop_loss |-> Number(Dollars(9800)),
      take_profit |-> Number(Dollars(10600))],
     [stop_loss |-> Number(Dollars(9800)),
      take_profit |-> Number(Dollars(10200))],
     [stop_loss |-> None, take_profit |-> Number(Dollars(10600))]}

ConfidenceInit ==
    /\ config = DefaultConfig
    /\ StrategyIdle
    /\ now = ClockStart
    /\ criteria = DefaultCriteria
    /\ market_data = None
    /\ FilterIdle
    /\ ScorerIdle
    /\ AnalyzerIdle
    /\ DataIdle

\* One call of calculate_signal_confidence on a ConfidenceCalculator with
\* the default configuration; the calculator keeps nothing from a call, so
\* one call per behaviour is followed
ScoreSignal ==
    /\ ~scored.called
    /\ \E signal_type \in {"buy", "sell"} :
       \E technical_analysis \in TechnicalAnalyses :
       \E support_resistance \in SupportResistances :
       \E market \in MarketDatas :
       \E risk_levels \in RiskLevels :
          scored' =
              [called |-> TRUE, signal_type |-> signal_type,
               current_price |-> ScoredPrice,
               technical_analysis |-> technical_analysis,
               support_resistance |-> support_resistance,
               market_data |-> market, risk_levels |-> risk_levels,
               result |->
                   CalculateSignalConfidence(signal_type, ScoredPrice,
                       technical_analysis, support_resistance, market,
                       risk_levels, ConfidenceConfig)]
    /\ UNCHANGED <<strategyVars, analyzerVars, dataVars, now, filterVars>>

ConfidenceNext == ScoreSignal

ConfidenceSpec == ConfidenceInit /\ [][ConfidenceNext]_vars

\* ------------------------------------------------------------------------
\* The analyzer's level identification as a state machine
\* ------------------------------------------------------------------------

\* The caller passes at most MaxExtrema local highs
MaxExtrema == 5

\* tolerance=0.5 of identify_support_resistance_levels
DefaultTolerance == 5

\* The prices and strengths of the local highs the caller passes
HighPool ==
    {<<9990, 310>>, <<10000, 350>>, <<10010, 250>>, <<10020, 290>>,
     <<10051, 120>>}

\* The lists of local highs: a bar index per entry, here its position
HighLists ==
    {[i \in DOMAIN f |-> Extremum(i, f[i][1], f[i][2])] :
        f \in UNION {[1..n -> HighPool] : n \in 0..MaxExtrema}}

\* The lists of local lows
LowLists ==
    {<<>>,
     <<Extremum(2, 9510, 260), Extremum(7, 9500, 220),
       Extremum(4, 9300, 450)>>}

LevelsInit ==
    /\ config = DefaultConfig
    /\ StrategyIdle
    /\ now = ClockStart
    /\ criteria = DefaultCriteria
    /\ market_data = None
    /\ FilterIdle
    /\ ScorerIdle
    /\ AnalyzerIdle
    /\ DataIdle

\* One call of identify_support_resistance_levels with the default
\* tolerance; the analyzer keeps nothing from a call, so one call per
\* behaviour is followed
IdentifyLevels ==
    /\ ~identified.called
    /\ \E highs \in HighLists :
       \E lows \in LowLists :
          identified' =
              [called |-> TRUE, highs |-> highs, lows |-> lows,
               tolerance |-> DefaultTolerance,
               result |->
                   IdentifySupportResistanceLevels(highs, lows,
                                                   DefaultTolerance)]
    /\ UNCHANGED <<strategyVars, scored, rsi_run, dataVars, now, filterVars>>

LevelsNext == IdentifyLevels

LevelsSpec == LevelsInit /\ [][LevelsNext]_vars

\* ------------------------------------------------------------------------
\* The RSI calculation as a state machine
\* ------------------------------------------------------------------------

\* The caller passes at most MaxPrices prices
MaxPrices == 5

\* The prices of the series
PricePool == {100, 101, 103}

\* The periods the caller asks for
PeriodPool == {0, 2, 3}

IndicatorsInit ==
    /\ config = DefaultConfig
    /\ StrategyIdle
    /\ now = ClockStart
    /\ criteria = DefaultCriteria
    /\ market_data = None
    /\ FilterIdle
    /\ ScorerIdle
    /\ AnalyzerIdle
    /\ DataIdle

\* One call of calculate_rsi, a static method: one call per behaviour is
\* followed
ComputeRsi ==
    /\ ~rsi_run.called
    /\ \E prices \in UNION {[1..n -> PricePool] : n \in 0..MaxPrices} :
       \E period \in PeriodPool :
          rsi_run' = [called |-> TRUE, prices |-> prices,
                      period |-> period,
                      result |-> CalculateRsi(prices, period)]
    /\ UNCHANGED <<strategyVars, scored, identified, dataVars, now,
                   filterVars>>

IndicatorsNext == ComputeRsi

IndicatorsSpec == IndicatorsInit /\ [][IndicatorsNext]_vars

\* ------------------------------------------------------------------------
\* The scheduler as a state machine
\* ------------------------------------------------------------------------

\* The schedule fires and the clock is advanced at most MaxSchedulerSteps
\* times in all
MaxSchedulerSteps == 3

\* The scheduler is constructed on the Monday at 15:59, 10:59 in New York
SchedulerStart == 15 * Hour + 59 * Minute

\* config['scheduler'] of the schedulers followed
SchedulerConfigs ==
    {[max_daily_calls |-> 4, max_hourly_calls |-> 3,
      max_minute_calls |-> 2, watchlist |-> <<"AMD", "PONY">>]}

\* The symbols the caller adds to and removes from the watchlist
SymbolPool == {"PONY", "NVDA"}

\* What get_current_price does for a symbol
FetchOutcomes == {"ok", "fetch_error", "error"}

\* The times that pass between two runs
Waits == {Minute, 6 * Hour, Day}

SchedulerInit ==
    /\ config = DefaultConfig
    /\ StrategyIdle
    /\ now = SchedulerStart
    /\ criteria = DefaultCriteria
    /\ market_data = None
    /\ FilterIdle
    /\ ScorerIdle
    /\ AnalyzerIdle
    /\ scheduler \in {DataScheduler(c, SchedulerStart) :
                         c \in SchedulerConfigs}
    /\ scheduler_steps = 0
    /\ fetcher = StockDataFetcher("yfinance", <<"mock">>)
    /\ fetched = IdleFetch

\* The schedule fires _scheduled_fetch
ScheduledFetch ==
    /\ scheduler_steps < MaxSchedulerSteps
    /\ \E outcomes \in [1..Len(scheduler.watchlist) -> FetchOutcomes] :
       \E r \in {ScheduledFetchResult(scheduler, now, outcomes)} :
          /\ scheduler' = r.scheduler
          /\ now' = r.clock
    /\ scheduler_steps' = scheduler_steps + 1
    /\ UNCHANGED <<strategyVars, scored, analyzerVars, filterVars, fetcher,
                   fetched>>

\* Time passes
Elapse ==
    /\ scheduler_steps < MaxSchedulerSteps
    /\ \E wait \in Waits : now' = now + wait
    /\ scheduler_steps' = scheduler_steps + 1
    /\ UNCHANGED <<strategyVars, scored, analyzerVars, filterVars, scheduler,
                   fetcher, fetched>>

\* add_to_watchlist
AddToWatchlist ==
    /\ \E symbol \in SymbolPool :
          scheduler' =
              IF symbol \in Elements(scheduler.watchlist) THEN scheduler
              ELSE [scheduler EXCEPT !.watchlist = Append(@, symbol)]
    /\ UNCHANGED <<strategyVars, scored, analyzerVars, filterVars, now,
                   scheduler_steps, fetcher, fetched>>

\* remove_from_watchlist
RemoveFromWatchlist ==
    /\ \E symbol \in SymbolPool :
          scheduler' =
              IF symbol \in Elements(scheduler.watchlist)
              THEN [scheduler EXCEPT !.watchlist = WithoutSymbol(@, symbol)]
              ELSE scheduler
    /\ UNCHANGED <<strategyVars, scored, analyzerVars, filterVars, now,
                   scheduler_steps, fetcher, fetched>>

SchedulerNext ==
    ScheduledFetch \/ Elapse \/ AddToWatchlist \/ RemoveFromWatchlist

SchedulerSpec == SchedulerInit /\ [][SchedulerNext]_vars

\* ------------------------------------------------------------------------
\* The fetcher's data sources as a state machine
\* ------------------------------------------------------------------------

\* The calls are followed while no source has failed FailureCap times
FailureCap == 5

\* config['backup_sources'] of the fetchers followed
BackupLists == {<<"mock">>, <<"backup_api", "mock">>}

FetcherInit ==
    /\ config = DefaultConfig
    /\ StrategyIdle
    /\ now = ClockStart
    /\ criteria = DefaultCriteria
    /\ market_data = None
    /\ FilterIdle
    /\ ScorerIdle
    /\ AnalyzerIdle
    /\ scheduler = DataScheduler(DefaultSchedulerConfig, ClockStart)
    /\ scheduler_steps = 0
    /\ fetcher \in {StockDataFetcher("yfinance", backup_sources) :
                       backup_sources \in BackupLists}
    /\ fetched = IdleFetch

\* One call of _get_data_with_fallback, from get_current_price,
\* get_historical_data or get_stock_info
FetchData ==
    /\ \A source \in DOMAIN fetcher.source_failures :
          fetcher.source_failures[source] < FailureCap
    /\ \E current_ok \in BOOLEAN :
       \E backup_ok \in [1..Len(fetcher.backup_sources) -> BOOLEAN] :
       \E r \in {GetDataWithFallback(fetcher, current_ok, backup_ok)} :
          /\ fetcher' = r.fetcher
          /\ fetched' = [called |-> TRUE, current_ok |-> current_ok,
                         backup_ok |-> backup_ok, before |-> fetcher,
                         raised |-> r.raised, source |-> r.source]
    /\ UNCHANGED <<strategyVars, scored, analyzerVars, filterVars, now,
                   scheduler, scheduler_steps>>

\* reset_sources
ResetSources ==
    /\ fetcher' = ResetSourcesResult(fetcher)
    /\ UNCHANGED <<strategyVars, scored, analyzerVars, filterVars, now,
                   scheduler, scheduler_steps, fetched>>

FetcherNext == FetchData \/ ResetSources

FetcherSpec == FetcherInit /\ [][FetcherNext]_vars

\* ------------------------------------------------------------------------
\* Claims about the strategy (StrategySpec)
\* ------------------------------------------------------------------------

\* The position of the last close among the levels of a frame, as the
\* analyzer computes it
FramePosition(df) == AnalyzeCurrentPosition(df.close, df.resistance, df.support)

SupportWithin(df, threshold) ==
    LET p == FramePosition(df)
    IN  Truthy(p.support_distance) /\ p.support_distance.percentage <= threshold

ResistanceWithin(df, threshold) ==
    LET p == FramePosition(df)
    IN  Truthy(p.resistance_distance)
        /\ p.resistance_distance.percentage <= threshold

\* The confidence of the candidate for one side of a frame: the base
\* confidence of the level with the confirmations of the indicator summary
\* (when the series is long enough for one)
CandidateConfidence(df, cfg, side) ==
    LET p == FramePosition(df)
        fa == IF SummaryComputable(df.nbars)
              THEN Update(AnalyzePriceAction(df), TechnicalSummary(df))
              ELSE AnalyzePriceAction(df)
        level == IF side = "buy" THEN p.nearest_support
                 ELSE p.nearest_resistance
        distance == IF side = "buy" THEN p.support_distance
                    ELSE p.resistance_distance
    IN  EnhancedConfidence(CalculateConfidence(distance, level),
                           TechnicalConfirmations(fa, side),
                           VolumeConfirmation, TrendConfirmation(fa, side))

OneSignal(side) ==
    /\ Len(run.signals) = 1
    /\ run.signals[1].signal_type = side

\* C1 (as claimed): a series with a strong four-touch support just below the
\* last close (within the proximity threshold), RSI = 25 and a golden cross
\* on the last bar yields, under the default configuration, exactly one buy
\* signal with confidence >= 0.75 and stop_loss < close < take_profit.
C1_EndToEndBuy ==
    (/\ run.called
     /\ config = DefaultConfig
     /\ ValidateData(run.df)
     /\ SummaryComputable(run.df.nbars)
     /\ run.df.tech.rsi = 2500
     /\ run.df.tech.cross = "golden"
     /\ SupportWithin(run.df, config.proximity_threshold)
     /\ FramePosition(run.df).nearest_support.strength_rating = "strong"
     /\ FramePosition(run.df).nearest_support.touch_count = 4)
    => (/\ OneSignal("buy")
        /\ run.signals[1].confidence >= Conf(750)
        /\ run.signals[1].stop_loss < run.df.close
        /\ run.df.close < run.signals[1].take_profit)

\* C2 (as claimed): for every accepted series, short or long: when only the
\* nearest support is within the proximity threshold, it is strong enough
\* and the candidate's confidence reaches min_confidence, analyze returns a
\* buy signal; symmetrically a sell signal for the nearest resistance.
C2_NearLevelGivesSignal ==
    (run.called /\ ValidateData(run.df)) =>
        /\ (/\ SupportWithin(run.df, config.proximity_threshold)
            /\ ~ResistanceWithin(run.df, config.proximity_threshold)
            /\ IsLevelStrongEnough(FramePosition(run.df).nearest_support,
                                   config.min_strength_rating)
            /\ CandidateConfidence(run.df, config, "buy")
                   >= config.min_confidence)
           => OneSignal("buy")
        /\ (/\ ResistanceWithin(run.df, config.proximity_threshold)
            /\ ~SupportWithin(run.df, config.proximity_threshold)
            /\ IsLevelStrongEnough(FramePosition(run.df).nearest_resistance,
                                   config.min_strength_rating)
            /\ CandidateConfidence(run.df, config, "sell")
                   >= config.min_confidence)
           => OneSignal("sell")

\* C3 (as claimed): when both the nearest support and the nearest resistance
\* are within the proximity threshold, the signal of the run is for the
\* nearer level: a buy if the support is nearer, a sell if the resistance is.
C3_NearerLevelWins ==
    (/\ run.called
     /\ run.signals # <<>>
     /\ SupportWithin(run.df, config.proximity_threshold)
     /\ ResistanceWithin(run.df, config.proximity_threshold))
    => LET p == FramePosition(run.df)
       IN  /\ (p.support_distance.percentage
                   < p.resistance_distance.percentage
               => run.signals[1].signal_type = "buy")
           /\ (p.resistance_distance.percentage
                   < p.support_distance.percentage
               => run.signals[1].signal_type = "sell")

\* C4: a run of analyze returns no signal or one signal, and a returned
\* signal has a confidence of at least the configured min_confidence.
C4_AtMostOneConfidentSignal ==
    run.called =>
        /\ Len(run.signals) <= 1
        /\ \A i \in 1..Len(run.signals) :
              run.signals[i].confidence >= config.min_confidence

\* C4 witness: a run has returned a signal, under the configuration that
\* asks for a confidence of 0.8
C4_Witness ==
    /\ run.called
    /\ config = HighConfidenceConfig
    /\ Len(run.signals) = 1

\* C5 (as claimed): every emitted buy signal has
\* stop_loss = max(support * 0.98, price - ATR * multiplier) and
\* stop_loss < price < take_profit, every emitted sell signal is the mirror
\* image with take_profit < price < stop_loss, for every ATR >= 0.
C5_StopsAroundPrice ==
    \A i \in 1..Len(run.signals) :
        LET sig == run.signals[i]
            atr_distance == (run.df.atr * config.atr_multiplier) \div 10
        IN  /\ sig.signal_type = "buy" =>
                /\ sig.stop_loss =
                       Max2((sig.metadata.level * 98) \div 100,
                            sig.price - atr_distance)
                /\ sig.stop_loss < sig.price
                /\ sig.price < sig.take_profit
            /\ sig.signal_type = "sell" =>
                /\ sig.stop_loss =
                       Min2((sig.metadata.level * 102) \div 100,
                            sig.price + atr_distance)
                /\ sig.take_profit < sig.price
                /\ sig.price < sig.stop_loss

\* The position size the claim states for a confidence and a number of
\* confirmations: confidence x 0.5 x multiplier, clamped to [0.05, 0.6]
ClaimedPosition(confidence, count) ==
    Max2(Conf(50),
         Min2(Conf(600),
              (confidence * 5
                  * (IF count >= 3 THEN 12 ELSE IF count >= 2 THEN 11 ELSE 10))
              \div 100))

\* Confidences the sizing is also checked on directly, so that both ends of
\* the clamp and every multiplier are exercised
SizingGrid == {Conf(0), Conf(80), Conf(100), Conf(600), Conf(910), Conf(1000)}

\* C6: every emitted signal has a confidence in [0, 1] and a position size
\* in [0.05, 0.6] that is confidence x 0.5 x the confirmation multiplier
\* (1.0, 1.1 from two confirmations, 1.2 from three), clamped to that range;
\* the sizing function itself keeps to this for every confidence of the grid.
C6_ConfidenceAndPositionBounds ==
    /\ \A sig \in {run.signals[i] : i \in 1..Len(run.signals)}
                  \cup {signals_generated[i] :
                           i \in 1..Len(signals_generated)} :
          /\ 0 <= sig.confidence /\ sig.confidence <= ConfScale
          /\ Conf(50) <= sig.position_size
          /\ sig.position_size <= Conf(600)
          /\ sig.position_size =
                 ClaimedPosition(
                     sig.confidence,
                     sig.metadata.technical_confirmations.confirmation_count)
    /\ \A c \in SizingGrid : \A n \in 0..3 :
          DynamicPositionSize(c, [confirmation_count |-> n])
              = ClaimedPosition(c, n)

\* C6 witness: a signal has been emitted and recorded
C6_Witness ==
    /\ run.called
    /\ Len(run.signals) = 1
    /\ signals_generated # <<>>
    /\ run.signals[1].position_size = run.signals[1].confidence \div 2

\* ------------------------------------------------------------------------
\* Claims about the filter (FilterSpec)
\* ------------------------------------------------------------------------

\* Two signals with the same side, action, confidence, price, timestamp,
\* stop-loss, take-profit and position size
SameFields(a, b) ==
    /\ a.signal_type = b.signal_type
    /\ a.action = b.action
    /\ a.confidence = b.confidence
    /\ a.price = b.price
    /\ a.timestamp = b.timestamp
    /\ a.stop_loss = b.stop_loss
    /\ a.take_profit = b.take_profit
    /\ a.position_size = b.position_size

\* The report entry of a stage of the last call, if the stage ran
StepsNamed(name) ==
    {k \in 1..Len(call.statistics.filter_steps) :
        call.statistics.filter_steps[k].name = name}

\* C7 (as claimed): after a call of filter_signals the input list and every
\* input signal, the contents of its metadata dict included, are what they
\* were before the call.
C7_InputNotMutated ==
    call.called =>
        /\ call.input_after = call.input
        /\ \A i \in 1..Len(call.input) :
              heap[call.input[i].metadata] =
                  call.heap_before[call.input[i].metadata]

\* C8 (as claimed): filter_signals on the list an earlier call returned, with
\* the same criteria and market data, returns the identical list, the same
\* signals in the same order, and every stage reports zero removals.
C8_FilterIdempotent ==
    (call.called /\ call.refilter) =>
        /\ call.output = call.previous
        /\ \A k \in 1..Len(call.statistics.filter_steps) :
              call.statistics.filter_steps[k].removed_count = 0

\* C9 (as claimed): every returned signal carries exactly the side, action,
\* confidence, price, timestamp, stop-loss, take-profit and position size of
\* a distinct input signal.
C9_OnlyFilters ==
    call.called =>
        \E f \in [1..Len(call.output) -> 1..Len(call.input)] :
            /\ \A i, j \in 1..Len(call.output) : f[i] = f[j] => i = j
            /\ \A i \in 1..Len(call.output) :
                  SameFields(call.output[i], call.input[f[i]])

\* C10: with duplicate removal enabled, the returned list never contains two
\* signals of the same side whose timestamps are within the duplicate window
\* of each other and whose prices are less than 1% apart.
C10_NoDuplicatesReturned ==
    (call.called /\ criteria.remove_duplicates) =>
        \A i, j \in 1..Len(call.output) :
            (/\ i < j
             /\ call.output[i].signal_type = call.output[j].signal_type
             /\ Abs(call.output[i].timestamp - call.output[j].timestamp)
                    <= DuplicateWindow)
            => Abs(call.output[i].price - call.output[j].price) * 100
                   >= Min2(call.output[i].price, call.output[j].price)

\* C10 witness: the duplicate stage has removed a signal, and two signals of
\* one side within the window of each other are returned
C10_Witness ==
    /\ call.called
    /\ criteria.remove_duplicates
    /\ \E k \in StepsNamed("duplicates") :
          call.statistics.filter_steps[k].removed_count > 0
    /\ \E i, j \in 1..Len(call.output) :
          /\ i < j
          /\ call.output[i].signal_type = call.output[j].signal_type
          /\ Abs(call.output[i].timestamp - call.output[j].timestamp)
                 <= DuplicateWindow

\* The signals a stage of the last call removed, as its report entry lists
\* them (none when the entry has no such list)
RemovedBy(name) ==
    UNION {IF "removed_signals" \in DOMAIN call.statistics.filter_steps[k]
           THEN {call.statistics.filter_steps[k].removed_signals[j].signal :
                    j \in 1..Len(call.statistics.filter_steps[k]
                                     .removed_signals)}
           ELSE {} : k \in StepsNamed(name)}

\* The confidences of the signals the daily cap of the last call kept: those
\* returned and those the quality stage removed afterwards
KeptByDailyLimit ==
    {call.output[i].confidence : i \in 1..Len(call.output)}
    \cup {s.confidence : s \in RemovedBy("advanced_quality")}

\* C11: with max_signals_per_day = N at most N signals are returned, and no
\* signal the daily cap removed has a strictly higher confidence than a
\* signal the cap kept.
C11_DailyCapKeepsBest ==
    (call.called /\ criteria.max_signals_per_day > 0) =>
        /\ Len(call.output) <= criteria.max_signals_per_day
        /\ \A r \in RemovedBy("daily_limit") :
              \A kept \in KeptByDailyLimit : r.confidence <= kept

\* C11 witness: the cap has removed a signal and a signal is returned
C11_Witness ==
    /\ call.called
    /\ criteria.max_signals_per_day > 0
    /\ RemovedBy("daily_limit") # {}
    /\ Len(call.output) = criteria.max_signals_per_day

\* A returned signal meets the criteria that are set; the age is taken at
\* the time of the call, reward and risk are the distances of the price to
\* the take-profit and to the stop-loss
MeetsCriteria(signal, at) ==
    /\ criteria.min_confidence <= signal.confidence
    /\ signal.confidence <= criteria.max_confidence
    /\ criteria.signal_types # {} =>
           signal.signal_type \in criteria.signal_types
    /\ criteria.min_position_size <= signal.position_size
    /\ signal.position_size <= criteria.max_position_size
    /\ criteria.time_window_hours > 0 =>
           at - signal.timestamp <= criteria.time_window_hours * Hour
    /\ (/\ criteria.min_risk_reward_ratio > 0
        /\ signal.stop_loss # NoValue
        /\ signal.take_profit # NoValue) =>
           Abs(signal.take_profit - signal.price) * 10 >=
               criteria.min_risk_reward_ratio
                   * Abs(signal.price - signal.stop_loss)

\* C12: every signal filter_signals returns satisfies each criterion that
\* was set: the confidence range, the allowed sides, the position-size
\* range, the time window and the minimum reward/risk.
C12_ReturnedMeetCriteria ==
    call.called =>
        \A i \in 1..Len(call.output) : MeetsCriteria(call.output[i], call.at)

\* C12 witness: with every one of these criteria set, a signal is returned
\* while the side, position-size, time-window and risk/reward stages have
\* each removed one
C12_Witness ==
    /\ call.called
    /\ criteria.signal_types # {}
    /\ criteria.time_window_hours > 0
    /\ criteria.min_risk_reward_ratio > 0
    /\ Len(call.output) > 0
    /\ \E name \in {"signal_type", "position_size", "time_window",
                     "risk_reward"} : RemovedBy(name) # {}

\* C13: the report entries of a call, in the order they were written, follow
\* the fixed stage order; the first before-count is the input size and
\* every later before-count is the after-count of the entry before it.
C13_StagesChained ==
    (call.called /\ Len(call.input) > 0) =>
        LET steps == call.statistics.filter_steps
        IN  /\ Len(steps) > 0
            /\ \A k \in 1..Len(steps) :
                  steps[k].name \in {StageOrder[n] : n \in 1..Len(StageOrder)}
            /\ steps[1].original_count = Len(call.input)
            /\ \A k \in 2..Len(steps) :
                  /\ StagePosition(steps[k - 1].name)
                         < StagePosition(steps[k].name)
                  /\ steps[k].original_count = steps[k - 1].filtered_count

\* C13 witness: all nine stages ran, a middle stage removed a signal and a
\* signal is returned
C13_Witness ==
    /\ call.called
    /\ Len(call.statistics.filter_steps) = Len(StageOrder)
    /\ \E k \in 2..(Len(StageOrder) - 1) :
          call.statistics.filter_steps[k].removed_count > 0
    /\ Len(call.output) > 0

\* The report entries of the stages other than the named one
OtherSteps(steps, stage) ==
    LET Other(step) == step.name # stage
    IN  SelectSeq(steps, Other)

\* A call with a stage off agrees with the pipeline without the stage: the
\* same signals are retained, and the other stages report the same
SameAsWithout(p) ==
    /\ call.output = [i \in 1..Len(p.signals) |-> DictToSignal(p.signals[i])]
    /\ OtherSteps(call.statistics.filter_steps, call.stage_off) = p.steps

\* C14: each of the nine stages can be switched off by a setting of the
\* criteria or of the configuration: under that setting the stage removes
\* no signal, and the call returns what the other eight stages alone, with
\* the caller's criteria, return and report.
C14_StagesToggleable ==
    (call.called /\ call.stage_off # "none") =>
        /\ \A k \in StepsNamed(call.stage_off) :
              call.statistics.filter_steps[k].removed_count = 0
        /\ SameAsWithout(PipelineWithout(call.stage_off, call.input,
                                         criteria, market_data,
                                         call.heap_before, call.at))

\* C14 witness: with the quality stage off a signal is returned that the
\* filter with its default configuration removes
C14_Witness ==
    /\ call.called
    /\ call.stage_off = "advanced_quality"
    /\ StepsNamed("advanced_quality") # {}
    /\ Len(call.output) >
           Len(FilterSignalsResult(call.input, criteria, market_data,
                                   call.heap_before, call.at)
                   .filtered_signals)

\* C15 (as claimed): the report entry of every stage that ran holds the
\* before-count, the after-count and the list of the signals the stage
\* removed, each with its reason, also when the stage removed nothing.
C15_StageReportsComplete ==
    call.called =>
        \A k \in 1..Len(call.statistics.filter_steps) :
            LET step == call.statistics.filter_steps[k]
            IN  /\ {"original_count", "filtered_count", "removed_signals"}
                       \subseteq DOMAIN step
                /\ Len(step.removed_signals) =
                       step.original_count - step.filtered_count
                /\ \A j \in 1..Len(step.removed_signals) :
                       "reason" \in DOMAIN step.removed_signals[j]

\* The events of a filter since its last reset_statistics (all of them when
\* it was never reset)
SinceReset(h) ==
    LET resets == {i \in 1..Len(h) : h[i].kind = "reset"}
        last == IF resets = {} THEN 0
                ELSE CHOOSE i \in resets : \A j \in resets : j <= i
    IN  SubSeq(h, last + 1, Len(h))

RECURSIVE SumOfInputs(_)
SumOfInputs(h) ==
    IF h = <<>> THEN 0 ELSE Head(h).input_size + SumOfInputs(Tail(h))

RECURSIVE SumOfOutputs(_)
SumOfOutputs(h) ==
    IF h = <<>> THEN 0 ELSE Head(h).output_size + SumOfOutputs(Tail(h))

\* The counters of one filter are the sums over its own calls since its
\* last reset, and all zero right after a reset
CountersMatch(statistics, h) ==
    /\ statistics.total_processed = SumOfInputs(SinceReset(h))
    /\ statistics.total_filtered = SumOfOutputs(SinceReset(h))
    /\ statistics.total_processed >= statistics.total_filtered
    /\ (h # <<>> /\ h[Len(h)].kind = "reset") => statistics = NoStatistics

\* C16: on each SignalFilter instance, total_processed and total_filtered
\* are the sums of the input sizes and of the returned sizes of the calls
\* made on that instance since its last reset_statistics, total_processed >=
\* total_filtered, a reset zeroes every counter, and the calls and resets of
\* another instance leave the counters alone.
C16_StatisticsAccounting ==
    /\ CountersMatch(filter_statistics, history)
    /\ CountersMatch(other_statistics, other_history)

\* C16 witness: the first filter was reset and then called twice, removing
\* signals in both calls, next to a second filter that was reset as well
C16_Witness ==
    /\ Len(history) = 3
    /\ history[1].kind = "reset"
    /\ CallsIn(history) = 2
    /\ history[2].input_size > history[2].output_size
    /\ history[3].input_size > history[3].output_size
    /\ filter_statistics.total_filtered > 0
    /\ other_history # <<>>

\* The state a caller can observe on the strategy: its configuration and
\* what get_signal_history and get_last_signal return
StrategyState == <<config, signals_generated, last_signal>>

\* C17 (as claimed): an invocation of analyze leaves the observable state
\* of the strategy as it was before the invocation; the filter's
\* statistics are the only state an engine object keeps between
\* invocations.
C17_AnalyzeKeepsNoState ==
    [][AnalyzeRun => UNCHANGED StrategyState]_vars

\* What filter_signals returns for the inputs of the last call when it runs
\* with the wall clock at ClockStart
ReturnedAtClockStart ==
    FilterSignalsResult(call.input, criteria, market_data, call.heap_before,
                        ClockStart).filtered_signals

\* C18 (as claimed): filter_signals is deterministic in its inputs: a call
\* returns what a call on equal signals, criteria and market data returns
\* at another wall-clock time.
C18_SameInputsSameResult ==
    (call.called /\ ~call.refilter) => call.output = ReturnedAtClockStart

\* ------------------------------------------------------------------------
\* Claims about the confidence calculator (ConfidenceSpec)
\* ------------------------------------------------------------------------

\* The computation of a component raised in the last call
ComponentFailed(name) ==
    CASE name = "technical_indicators" ->
             AnyRaised(TechnicalSteps(scored.signal_type,
                           scored.technical_analysis,
                           ConfidenceConfig.technical_thresholds))
      [] name = "support_resistance" ->
             AnyRaised(SrSteps(scored.signal_type, scored.current_price,
                               scored.support_resistance,
                               ConfidenceConfig.sr_evaluation))
      [] name = "market_environment" ->
             AnyRaised(MarketSteps(scored.market_data,
                                   scored.technical_analysis))
      [] name = "risk_reward" ->
             /\ ~Falsy(scored.risk_levels)
             /\ RiskRewardStep(scored.current_price, scored.risk_levels,
                               ConfidenceConfig.risk_reward).raised
      [] name = "volume_confirmation" ->
             CalculateVolumeConfidence(scored.market_data,
                 ConfidenceConfig.technical_thresholds).raised

\* What the computation of a component that did not raise gives in the
\* last call
ComponentComputed(name) ==
    CASE name = "technical_indicators" ->
             CalculateTechnicalConfidence(scored.signal_type,
                 scored.technical_analysis, ConfidenceConfig)
      [] name = "support_resistance" ->
             CalculateSrConfidence(scored.signal_type, scored.current_price,
                 scored.support_resistance, ConfidenceConfig)
      [] name = "market_environment" ->
             CalculateMarketConfidence(scored.signal_type,
                 scored.market_data, scored.technical_analysis)
      [] name = "risk_reward" ->
             CalculateRiskRewardConfidence(scored.current_price,
                 scored.risk_levels, ConfidenceConfig)
      [] name = "volume_confirmation" ->
             CalculateVolumeConfidence(scored.market_data,
                 ConfidenceConfig.technical_thresholds).value

\* The weighted sum of the reported components with one of the bonuses of
\* the adjustments, clamped
WeightedWithBonus ==
    {Clamp01(WeightedSum(scored.result.components,
                         ConfidenceConfig.weights) + bonus) :
         bonus \in {0, Conf(50), Conf(100), Conf(150)}}

\* C19 (as claimed): when the computation of a component fails, the score
\* is not aborted: the result is not the all-default error result, the
\* failing component is reported at its neutral default 0.5, the other
\* components at their computed values, and the overall confidence is the
\* weighted combination of these values.
C19_ComponentFailureIsolated ==
    (/\ scored.called
     /\ \E k \in 1..Len(ComponentNames) : ComponentFailed(ComponentNames[k]))
    =>
        /\ ~scored.result.error
        /\ \A k \in 1..Len(ComponentNames) :
               scored.result.components[ComponentNames[k]] =
                   IF ComponentFailed(ComponentNames[k]) THEN BaseConfidence
                   ELSE ComponentComputed(ComponentNames[k])
        /\ scored.result.overall_confidence \in WeightedWithBonus

\* The input data a component reads is missing in the last call: no
\* technical analysis, no levels, no market data, no risk levels
InputMissing(name) ==
    CASE name = "technical_indicators" ->
             scored.technical_analysis = EmptyDict
      [] name = "support_resistance" ->
             scored.support_resistance = EmptyDict
      [] name = "market_environment" ->
             /\ scored.market_data = EmptyDict
             /\ scored.technical_analysis = EmptyDict
      [] name = "risk_reward" -> scored.risk_levels = None
      [] name = "volume_confirmation" -> scored.market_data = EmptyDict

\* C20 (as claimed): each of the five component scores lies in [0, 1], a
\* component whose input data is missing is exactly the neutral baseline
\* 0.5, and with no input at all and the default weights the overall
\* confidence is 0.5.
C20_ComponentsBoundedAndNeutral ==
    scored.called =>
        /\ \A k \in 1..Len(ComponentNames) :
               /\ scored.result.components[ComponentNames[k]] >= 0
               /\ scored.result.components[ComponentNames[k]] <= ConfScale
               /\ InputMissing(ComponentNames[k]) =>
                      scored.result.components[ComponentNames[k]] =
                          BaseConfidence
        /\ (\A k \in 1..Len(ComponentNames) :
                InputMissing(ComponentNames[k]))
               => scored.result.overall_confidence = BaseConfidence

\* ------------------------------------------------------------------------
\* Claims about the aggregate functions
\* ------------------------------------------------------------------------

\* analyze fails internally on an accepted frame: find_local_extrema or
\* calculate_atr raises inside its try block
AnalyzeFailed(df, cfg) ==
    /\ ValidateData(df)
    /\ \/ ~ExtremaComputable(df.nbars, cfg.window)
       \/ ~AtrComputable(df.nbars)

\* C21 (as claimed): analyze never raises, and on an internal failure it
\* returns a safe default result with confidence 0.5 and an explicit error
\* flag, as calculate_signal_confidence does.
C21_SafeDefaultOnFailure ==
    (run.called /\ AnalyzeFailed(run.df, config)) =>
        /\ Len(run.signals) = 1
        /\ run.signals[1].confidence = Conf(500)
        /\ "error" \in DOMAIN run.signals[1]

\* The lowest confidence of a tier
TierFloor(tier) ==
    IF tier = "very_low" THEN 0
    ELSE ConfidenceConfig.confidence_levels[tier]

\* C22 (as claimed): the tier of a result is the one the thresholds 0.85,
\* 0.75, 0.65 and 0.50 give its confidence, and each tier carries one fixed
\* recommendation and one fixed risk label, the ones the scorer gives at
\* the floor of the tier, so that results of one tier never differ in them.
C22_TierFixesLabels ==
    scored.called =>
        /\ scored.result.confidence_level =
               GetConfidenceLevel(scored.result.overall_confidence,
                                  ConfidenceConfig.confidence_levels)
        /\ scored.result.recommendation =
               GetConfidenceRecommendation(
                   TierFloor(scored.result.confidence_level))
        /\ scored.result.risk_assessment =
               AssessConfidenceRisk(TierFloor(scored.result.confidence_level))

\* The readable RSI of the last call, or the middle reading 50 when there
\* is none
ScoredRsi ==
    LET rsi_data == Get(Get(scored.technical_analysis, "indicators",
                            EmptyDict), "rsi_14", EmptyDict)
    IN  IF Usable(rsi_data) THEN Get(rsi_data, "current_rsi", Number(50)).value
        ELSE 50

\* The confirmations of the last call that agree with the side of the
\* signal: an oversold RSI, a MACD buy signal and a majority of averages
\* below the price for a buy, the mirror image for a sell
AgreeingConfirmations ==
    LET macd_data == Get(Get(scored.technical_analysis, "indicators",
                             EmptyDict), "macd", EmptyDict)
        price_position == Get(scored.technical_analysis, "price_position",
                              EmptyDict)
        above_count == CountValues(price_position, "above")
        total_count == above_count + CountValues(price_position, "below")
        buy == scored.signal_type = "buy"
    IN  (IF (buy /\ ScoredRsi <= 30) \/ (~buy /\ ScoredRsi >= 70)
         THEN 1 ELSE 0)
        + (IF Usable(macd_data)
              /\ Get(macd_data, "signal_type", "") =
                     (IF buy THEN "buy_signal" ELSE "sell_signal")
           THEN 1 ELSE 0)
        + (IF total_count > 0
              /\ \/ buy /\ above_count * 10 >= 7 * total_count
                 \/ ~buy /\ above_count * 10 <= 3 * total_count
           THEN 1 ELSE 0)

\* C23 (as claimed): the overall confidence of a computed result is the
\* weighted sum of its components, plus 0.10 exactly when the RSI is
\* extreme in the signal's favour (at most 20 for a buy, at least 80 for a
\* sell), plus 0.05 exactly when at least three confirmations agree with
\* the side of the signal, clamped to [0, 1].
C23_BonusesOnlyInFavour ==
    (scored.called /\ ~scored.result.error) =>
        scored.result.overall_confidence =
            Clamp01(WeightedSum(scored.result.components,
                                ConfidenceConfig.weights)
                    + (IF \/ scored.signal_type = "buy" /\ ScoredRsi <= 20
                          \/ scored.signal_type = "sell" /\ ScoredRsi >= 80
                       THEN Conf(100) ELSE 0)
                    + (IF AgreeingConfirmations >= 3 THEN Conf(50) ELSE 0))

\* ------------------------------------------------------------------------
\* Claims about the support and resistance levels (LevelsSpec)

\* The levels of the last call, of both kinds
IdentifiedLevels ==
    Elements(identified.result.resistance_levels)
        \cup Elements(identified.result.support_levels)

\* The rating as stated: strong from four touches and an average strength
\* of 3%, medium from two touches and 2%, weak otherwise
StatedRating(touch_count, strength_sum) ==
    IF touch_count >= 4 /\ strength_sum >= 300 * touch_count THEN "strong"
    ELSE IF touch_count >= 2 /\ strength_sum >= 200 * touch_count
    THEN "medium"
    ELSE "weak"

\* C24: a level is rated strong exactly when its touch_count is at least 4
\* and its average strength at least 3%, otherwise medium exactly when its
\* touch_count is at least 2 and its average strength at least 2%, and
\* weak otherwise.
C24_RatingFromTouchesAndStrength ==
    \A level \in IdentifiedLevels :
        level.strength_rating =
            StatedRating(level.touch_count,
                         StrengthSum(level.individual_touches))

\* The touches of a list of levels, summed
RECURSIVE TouchSum(_)
TouchSum(levels) ==
    IF Len(levels) = 0 THEN 0
    ELSE Head(levels).touch_count + TouchSum(Tail(levels))

\* The levels of a list that hold a given extremum among their touches
LevelsHolding(levels, extremum) ==
    Cardinality({k \in 1..Len(levels) :
                    extremum \in Elements(levels[k].individual_touches)})

\* The clustering of a list of extrema into levels is a partition
IsPartition(extrema_list, levels) ==
    /\ TouchSum(levels) = Len(extrema_list)
    /\ \A k \in 1..Len(levels) :
          levels[k].touch_count = Len(levels[k].individual_touches)
    /\ \A i \in 1..Len(extrema_list) :
          LevelsHolding(levels, extrema_list[i]) = 1

\* The extrema in ascending price
ByPrice(extrema_list) ==
    StableSort(extrema_list,
               [i \in 1..Len(extrema_list) |-> extrema_list[i].price])

\* The k-th of the price-sorted extrema lies within the tolerance (tenths
\* of a percent) of the average price of those before it
NearRunningAverage(sorted, k, tolerance) ==
    Abs((k - 1) * sorted[k].price - PriceSum(SubSeq(sorted, 1, k - 1)))
            * 1000
        <= tolerance * PriceSum(SubSeq(sorted, 1, k - 1))

\* A list whose price-sorted extrema each lie within the tolerance of the
\* running average of those before
IsRun(extrema_list, tolerance) ==
    /\ Len(extrema_list) > 0
    /\ \A k \in 2..Len(extrema_list) :
          NearRunningAverage(ByPrice(extrema_list), k, tolerance)

\* The five highs 100.0, 100.2, 99.9, 100.1, 100.0
FiveHighs ==
    <<Extremum(1, 10000, 350), Extremum(2, 10020, 290),
      Extremum(3, 9990, 310), Extremum(4, 10010, 250),
      Extremum(5, 10000, 350)>>

\* C25: the clustering partitions the extrema (every extremum is a touch of
\* exactly one level and the touch_counts sum to the number of extrema); a
\* run of price-sorted extrema each within the tolerance of the running
\* average forms a single level; the five highs 100.0, 100.2, 99.9, 100.1,
\* 100.0 with tolerance 0.5% give exactly one resistance level, with
\* touch_count 5.
C25_ClusteringPartitions ==
    identified.called =>
        /\ IsPartition(identified.highs, identified.result.resistance_levels)
        /\ IsPartition(identified.lows, identified.result.support_levels)
        /\ IsRun(identified.highs, identified.tolerance) =>
              /\ Len(identified.result.resistance_levels) = 1
              /\ identified.result.resistance_levels[1].touch_count
                     = Len(identified.highs)
        /\ identified.highs = FiveHighs =>
              /\ Len(identified.result.resistance_levels) = 1
              /\ identified.result.resistance_levels[1].touch_count = 5

\* The five highs were clustered, and so was a run whose last price is
\* near the running average but not near the first price
C25_Witness ==
    /\ identified.called
    /\ identified.highs = FiveHighs
    /\ identified.tolerance = DefaultTolerance
    /\ identified.result.total_resistance = 1

\* Highs that fall into more than one level were clustered
C25_SeveralLevels ==
    /\ identified.called
    /\ Len(identified.highs) = MaxExtrema
    /\ identified.result.total_resistance >= 2
    /\ identified.result.total_support = 2

\* ------------------------------------------------------------------------
\* Claims about the indicators (IndicatorsSpec)

\* The positions of the last series where the smoothed average loss is
\* defined and exactly 0
ZeroLossPositions ==
    {i \in 1..Len(rsi_run.prices) :
        /\ i >= rsi_run.period
        /\ Smoothed(Losses(rsi_run.prices), rsi_run.period, i) = 0}

\* C26: whenever the smoothed average loss is exactly 0 at an index, the
\* RSI reported at that index is 50 (never 100 and never NaN), whatever the
\* average gain is.
C26_ZeroLossGivesFifty ==
    (rsi_run.called /\ ~rsi_run.result.raised) =>
        \A i \in ZeroLossPositions : rsi_run.result.value[i] = Float(5000)

\* ------------------------------------------------------------------------
\* Claims about the filter's accounting (FilterSpec)

\* The signals of a list that carry a given metadata dict
WithMetadata(signals, id) ==
    Cardinality({i \in 1..Len(signals) : signals[i].metadata = id})

\* The entries of removed_signals whose signal carries a given metadata dict
RemovedWithMetadata(removed_signals, id) ==
    Cardinality({i \in 1..Len(removed_signals) :
                    removed_signals[i].signal.metadata = id})

\* C27: in the report of every call of filter_signals each input signal is
\* either returned or recorded exactly once in removed_signals, so that
\* original_count = filtered_count + the number of removed_signals entries,
\* and for every executed stage before-count = after-count + removed-count.
C27_AccountingConservative ==
    call.called =>
        /\ call.statistics.original_count = Len(call.input)
        /\ call.statistics.filtered_count = Len(call.output)
        /\ call.statistics.original_count
               = call.statistics.filtered_count
                     + Len(call.statistics.removed_signals)
        /\ \A i \in 1..Len(call.input) :
              WithMetadata(call.output, call.input[i].metadata)
                  + RemovedWithMetadata(call.statistics.removed_signals,
                                        call.input[i].metadata)
                  = WithMetadata(call.input, call.input[i].metadata)
        /\ \A k \in 1..Len(call.statistics.filter_steps) :
              call.statistics.filter_steps[k].original_count
                  = call.statistics.filter_steps[k].filtered_count
                        + call.statistics.filter_steps[k].removed_count

\* C27 witness: a call that returned a signal and whose removed signals
\* come from two stages at least
C27_Witness ==
    /\ call.called
    /\ Len(call.output) > 0
    /\ Cardinality({k \in 1..Len(call.statistics.filter_steps) :
                       call.statistics.filter_steps[k].removed_count > 0})
           >= 2
    /\ Len(call.statistics.removed_signals) >= 2

\* ------------------------------------------------------------------------
\* Claims about the fields of a confidence result (ConfidenceSpec)

\* The tier the thresholds 0.85, 0.75, 0.65 and 0.50 assign to a confidence
ThresholdTier(confidence) ==
    IF confidence >= Conf(850) THEN "very_high"
    ELSE IF confidence >= Conf(750) THEN "high"
    ELSE IF confidence >= Conf(650) THEN "medium"
    ELSE IF confidence >= Conf(500) THEN "low"
    ELSE "very_low"

\* The recommendation that belongs to a tier
TierRecommendation(tier) ==
    CASE tier = "very_high" -> "strongly_recommended"
      [] tier = "high" -> "recommended"
      [] tier = "medium" -> "cautious"
      [] tier = "low" -> "wait_and_see"
      [] OTHER -> "not_recommended"

\* C28: in every result of calculate_signal_confidence, the default result
\* returned after a failure included, confidence_level is the tier the
\* thresholds assign to the returned overall_confidence, and recommendation
\* is the one that belongs to that tier.
C28_FieldsAgreeWithConfidence ==
    scored.called =>
        /\ scored.result.confidence_level
               = ThresholdTier(scored.result.overall_confidence)
        /\ scored.result.recommendation
               = TierRecommendation(
                     ThresholdTier(scored.result.overall_confidence))

\* ------------------------------------------------------------------------
\* Claims about the scheduler (SchedulerSpec)

\* C29: after any sequence of scheduled fetch cycles, counter resets and
\* watchlist changes, the three counters of the scheduler are within their
\* limits: daily_calls <= max_daily_calls, hourly_calls <= max_hourly_calls
\* and minute_calls <= max_minute_calls, whatever the size of the watchlist.
C29_CountersWithinLimits ==
    /\ scheduler.daily_calls <= scheduler.max_daily_calls
    /\ scheduler.hourly_calls <= scheduler.max_hourly_calls
    /\ scheduler.minute_calls <= scheduler.max_minute_calls

\* ------------------------------------------------------------------------
\* Claims about the fetcher (FetcherSpec)

\* The last call began on the primary source and ended on a backup source
SwitchedToBackup ==
    /\ fetched.called
    /\ fetched.before.current_source = fetched.before.primary_source
    /\ fetcher.current_source # fetcher.primary_source

\* C30: the fetcher switches its current source from the primary to a
\* backup only after the primary has accumulated max_failures (3) failures
\* with no success in between; a single failure of the primary followed by
\* a successful backup call leaves current_source on the primary.
C30_SwitchOnlyAfterMaxFailures ==
    SwitchedToBackup =>
        /\ ~fetched.current_ok
        /\ fetched.before.source_failures[fetched.before.primary_source] + 1
               >= MaxFailures

====
